---------------------------- MODULE Spec2Model ----------------------------
(***************************************************************************)
(* Model of the tesserax 2D rigid-body physics core                        *)
(* (src/src/tesserax/physics): bodies, colliders, narrow-phase collision   *)
(* detection and impulse resolution, constraints, force fields and the     *)
(* fixed-step World driver.                                                *)
(*                                                                         *)
(* Numbers.  Python floats are modelled by rationals <<n, d>> in lowest     *)
(* terms with d > 0.  +, -, *, / are exact while the result's denominator  *)
(* is at most Grid and are rounded to the nearest multiple of 1/Grid       *)
(* beyond it (the finite precision of a float); sqrt is exact on the       *)
(* squares of rationals and rounds down to the grid 1/d elsewhere.  The    *)
(* inputs of the solver and constraint specifications stay on the exact    *)
(* part.                                                                   *)
(***************************************************************************)
EXTENDS Integers, Sequences, FiniteSets, TLC

VARIABLES
    bodies,       \* World.bodies: sequence of Body records (index = creation order)
    fields,       \* World.fields: sequence of Field records
    constraints,  \* World.constraints: sequence of Constraint records over body indices
    initial,      \* the bodies as they were before the first operation
    pre,          \* the bodies as they were before the last operation
    op,           \* the last operation and its arguments
    log,          \* the elements touched by the last operation, in order
    raised,       \* the exception the last operation ended with, or "none"
    col,          \* result of the last Collision.solve(a, b): a Collision or NoCollision
    colRev,       \* result of Collision.solve(b, a) on the same pair
    ret,          \* the value the last operation returned, or NoReturn
    nops          \* number of operations performed so far

vars == <<bodies, fields, constraints, initial, pre, op, log, raised, col, colRev, ret, nops>>

---------------------------------------------------------------------------
(* Bounds of the model *)

MaxOps == 2

\* Precision of the arithmetic: the largest denominator kept exactly
Grid == 100

---------------------------------------------------------------------------
(* Rational arithmetic standing for Python float arithmetic *)

Abs(n) == IF n < 0 THEN -n ELSE n

RECURSIVE GCD(_, _)
GCD(a, b) == IF b = 0 THEN a ELSE GCD(b, a % b)

\* n/d divided through by g, with a positive denominator
Lowest(n, d, g) ==
    IF d < 0 THEN <<(-n) \div g, (-d) \div g>> ELSE <<n \div g, d \div g>>

\* n/d in lowest terms with a positive denominator
Reduce(n, d) == Lowest(n, d, GCD(Abs(n), Abs(d)))

\* Numerator of the multiple of 1/Grid nearest to q + r/d
Nearest(q, r, d) == q * Grid + ((2 * r * Grid + d) \div (2 * d))

\* A float result: exact while the denominator fits the precision, rounded to
\* the nearest multiple of 1/Grid beyond it (alike for a value and its negation)
Round(e) ==
    IF e[2] <= Grid THEN e
    ELSE IF e[1] < 0
    THEN Reduce(-Nearest((-e[1]) \div e[2], (-e[1]) % e[2], e[2]), Grid)
    ELSE Reduce(Nearest(e[1] \div e[2], e[1] % e[2], e[2]), Grid)

Norm(n, d) == Round(Reduce(n, d))

Q(n) == <<n, 1>>
Frac(n, d) == Norm(n, d)

QAdd(a, b) == Norm(a[1] * b[2] + b[1] * a[2], a[2] * b[2])
QSub(a, b) == Norm(a[1] * b[2] - b[1] * a[2], a[2] * b[2])
QMul(a, b) == Norm(a[1] * b[1], a[2] * b[2])
QDiv(a, b) == Norm(a[1] * b[2], a[2] * b[1])
QNeg(a) == <<-a[1], a[2]>>
QLt(a, b) == a[1] * b[2] < b[1] * a[2]
QLe(a, b) == a[1] * b[2] <= b[1] * a[2]
QGt(a, b) == QLt(b, a)
QMax(a, b) == IF QLt(a, b) THEN b ELSE a
QMin(a, b) == IF QLt(b, a) THEN b ELSE a
QAbs(a) == <<Abs(a[1]), a[2]>>
QSq(a) == QMul(a, a)
QZero == Q(0)
QOne == Q(1)

\* float("inf") and float("-inf"), as far as comparisons go
Inf == <<1, 0>>
NegInf == <<-1, 0>>

\* Largest integer in lo..hi whose square is at most n
RECURSIVE SqrtSearch(_, _, _)
SqrtSearch(n, lo, hi) ==
    IF lo >= hi THEN lo
    ELSE IF ((lo + hi + 1) \div 2) * ((lo + hi + 1) \div 2) <= n
    THEN SqrtSearch(n, (lo + hi + 1) \div 2, hi)
    ELSE SqrtSearch(n, lo, ((lo + hi + 1) \div 2) - 1)

ISqrt(n) == SqrtSearch(n, 0, IF n < 46340 THEN n ELSE 46340)

\* sqrt(a) given the integer roots of its numerator and denominator
SqrtFrom(a, rn, rd) ==
    IF rn * rn = a[1] /\ rd * rd = a[2] THEN <<rn, rd>>
    ELSE Norm(ISqrt(a[1] * a[2]), a[2])

\* math.sqrt: sqrt(n/d) = sqrt(n)/sqrt(d) on squares, sqrt(n*d)/d elsewhere
QSqrt(a) == SqrtFrom(a, ISqrt(a[1]), ISqrt(a[2]))

---------------------------------------------------------------------------
(* Point: 2D vector arithmetic used by the physics code *)

Pt(x, y) == [x |-> x, y |-> y]
PtI(x, y) == Pt(Q(x), Q(y))
PZero == PtI(0, 0)

PAdd(p, q) == Pt(QAdd(p.x, q.x), QAdd(p.y, q.y))
PSub(p, q) == Pt(QSub(p.x, q.x), QSub(p.y, q.y))
PMul(p, s) == Pt(QMul(p.x, s), QMul(p.y, s))
PDiv(p, s) == Pt(QDiv(p.x, s), QDiv(p.y, s))
Dot(p, q) == QAdd(QMul(p.x, q.x), QMul(p.y, q.y))
Cross(p, q) == QSub(QMul(p.x, q.y), QMul(p.y, q.x))
Magnitude(p) == QSqrt(QAdd(QSq(p.x), QSq(p.y)))

\* p scaled to unit length, m being its magnitude
Unit(p, m) == IF m = QZero THEN PZero ELSE PDiv(p, m)
Normalize(p) == Unit(p, Magnitude(p))

\* p turned by the angle whose cosine and sine are given
Rotated(p, cos_r, sin_r) ==
    Pt(QSub(QMul(p.x, cos_r), QMul(p.y, sin_r)),
       QAdd(QMul(p.x, sin_r), QMul(p.y, cos_r)))

---------------------------------------------------------------------------
(* Colliders, materials and bodies *)

NoCollider == [kind |-> "None"]
CircleCollider(radius) == [kind |-> "Circle", radius |-> radius]
BoxCollider(width, height) == [kind |-> "Box", width |-> width, height |-> height]

Material(density, restitution, friction) ==
    [density |-> density, restitution |-> restitution, friction |-> friction]
DefaultMaterial == Material(QOne, Frac(1, 2), Frac(3, 10))

\* A shape as the Body constructor reads it: bounds() (width, height, center)
\* and transform.rotation.
Shape(w, h, cx, cy, rotation) ==
    [w |-> w, h |-> h, center |-> Pt(cx, cy), rotation |-> rotation]

\* self.mass = material.density * (area / 1000.0), area = b.width * b.height
Mass(shape, material) ==
    QMul(material.density, QDiv(QMul(shape.w, shape.h), Q(1000)))

\* inertia: 0.5 m r^2 for a circle collider, m (w^2 + h^2) / 12 otherwise
Inertia(shape, collider, mass) ==
    IF collider.kind = "Circle"
    THEN QMul(QMul(Frac(1, 2), mass), QSq(collider.radius))
    ELSE QDiv(QMul(mass, QAdd(QSq(shape.w), QSq(shape.h))), Q(12))

\* The fields of a new body of the given mass
BodyOfMass(shape, collider, material, static, mass) ==
    [ shape       |-> shape,
      material    |-> material,
      static      |-> static,
      pos         |-> shape.center,
      vel         |-> PZero,
      acc         |-> PZero,
      angle       |-> shape.rotation,
      angular_vel |-> QZero,
      torque      |-> QZero,
      inv_mass    |-> IF static THEN QZero ELSE QDiv(QOne, mass),
      inv_inertia |-> IF static THEN QZero
                      ELSE QDiv(QOne, Inertia(shape, collider, mass)),
      collider    |-> IF collider.kind = "None"
                      THEN BoxCollider(shape.w, shape.h) ELSE collider ]

\* Body.__init__(shape, collider, material, static)
NewBody(shape, collider, material, static) ==
    BodyOfMass(shape, collider, material, static, Mass(shape, material))

NoPoint == [none |-> TRUE]

\* Body.apply_force(force, point)
ApplyForce(b, force, point) ==
    IF b.static THEN b
    ELSE IF point = NoPoint
    THEN [b EXCEPT !.acc = PAdd(@, PMul(force, b.inv_mass))]
    ELSE [b EXCEPT !.acc = PAdd(@, PMul(force, b.inv_mass)),
                   !.torque = QAdd(@, Cross(PSub(point, b.pos), force))]

\* Body.integrate, 1. Linear: vel += acc * dt; pos += vel * dt; acc = (0, 0)
AdvanceVel(b, dt) == [b EXCEPT !.vel = PAdd(@, PMul(b.acc, dt))]
AdvancePos(b, dt) == [b EXCEPT !.pos = PAdd(@, PMul(b.vel, dt)), !.acc = PZero]

\* Body.integrate, 2. Angular: angular_vel += torque * inv_inertia * dt;
\* angle += angular_vel * dt; torque = 0
AdvanceAngularVel(b, dt) ==
    [b EXCEPT !.angular_vel = QAdd(@, QMul(QMul(b.torque, b.inv_inertia), dt))]
AdvanceAngle(b, dt) ==
    [b EXCEPT !.angle = QAdd(@, QMul(b.angular_vel, dt)), !.torque = QZero]

\* Body.integrate below its static early return
IntegrateUnguarded(b, dt) ==
    AdvanceAngle(AdvanceAngularVel(AdvancePos(AdvanceVel(b, dt), dt), dt), dt)

\* Body.integrate as explicit Euler: the position advances by the velocity
\* the body had before the step
IntegrateExplicit(b, dt) ==
    IF b.static THEN b
    ELSE AdvanceAngle(AdvanceAngularVel(
            [b EXCEPT !.vel = PAdd(@, PMul(b.acc, dt)),
                      !.pos = PAdd(@, PMul(b.vel, dt)),
                      !.acc = PZero], dt), dt)

\* Body.integrate(dt)
Integrate(b, dt) ==
    IF b.static THEN b
    ELSE AdvanceAngle(AdvanceAngularVel(AdvancePos(AdvanceVel(b, dt), dt), dt), dt)

---------------------------------------------------------------------------
(* Force fields *)

Gravity(g) == [kind |-> "Gravity", g |-> Pt(QZero, g)]
Drag(k) == [kind |-> "Drag", k |-> k]
InverseDistanceField(intensity, center, exponent) ==
    [kind |-> "InverseDistance", intensity |-> intensity,
     center |-> center, exponent |-> exponent]

\* Gravity.apply(bodies)
GravityApply(f, bs) ==
    [i \in DOMAIN bs |->
        IF ~bs[i].static THEN [bs[i] EXCEPT !.acc = PAdd(@, f.g)] ELSE bs[i]]

\* Drag.apply(bodies)
DragApply(f, bs) ==
    [i \in DOMAIN bs |->
        IF ~bs[i].static
        THEN [bs[i] EXCEPT !.acc = PSub(@, PMul(bs[i].vel, f.k))]
        ELSE bs[i]]

\* SimpleField.apply / InverseDistanceField._apply: _apply reads b.mass and
\* calls b.apply, neither of which Body defines, so the first non-static
\* body ends the call with AttributeError before anything is written.
InverseDistanceApply(f, bs) ==
    IF \E i \in DOMAIN bs : ~bs[i].static
    THEN [bodies |-> bs, err |-> "AttributeError"]
    ELSE [bodies |-> bs, err |-> "none"]

\* Field.apply(bodies): the bodies afterwards and the exception raised, if any
FieldApply(f, bs) ==
    CASE f.kind = "Gravity" -> [bodies |-> GravityApply(f, bs), err |-> "none"]
      [] f.kind = "Drag" -> [bodies |-> DragApply(f, bs), err |-> "none"]
      [] f.kind = "InverseDistance" -> InverseDistanceApply(f, bs)

---------------------------------------------------------------------------
(* Constraints *)

Spring(a, b, length, k, damping) ==
    [kind |-> "Spring", a |-> a, b |-> b, rest_length |-> length,
     stiffness |-> k, damping |-> damping]
Rod(a, b, length) == [kind |-> "Rod", a |-> a, b |-> b, length |-> length]

\* delta = self.b.pos - self.a.pos
Delta(c, bs) == PSub(bs[c.b].pos, bs[c.a].pos)

\* Spring.solve without the damping term
TotalForceUndamped(c, bs, dist, normal) ==
    QMul(QSub(dist, c.rest_length), c.stiffness)

\* Spring.solve: total_force = force_mag + damping_force, along normal
TotalForce(c, bs, dist, normal) ==
    QAdd(QMul(QSub(dist, c.rest_length), c.stiffness),
         QMul(Dot(PSub(bs[c.b].vel, bs[c.a].vel), normal), c.damping))

\* Spring.solve: f_vector = normal * total_force, normal = delta / dist
SpringForce(c, bs, dist, normal) == PMul(normal, TotalForce(c, bs, dist, normal))

\* Spring.solve with the two apply_force calls exchanged
SpringApplySwapped(c, bs, f_vector) ==
    [[bs EXCEPT ![c.b] = ApplyForce(@, f_vector, NoPoint)]
        EXCEPT ![c.a] = ApplyForce(@, PMul(f_vector, Q(-1)), NoPoint)]

\* Spring.solve: self.a.apply_force(f_vector); self.b.apply_force(f_vector * -1)
SpringApply(c, bs, f_vector) ==
    [[bs EXCEPT ![c.a] = ApplyForce(@, f_vector, NoPoint)]
        EXCEPT ![c.b] = ApplyForce(@, PMul(f_vector, Q(-1)), NoPoint)]

\* Spring.solve from the distance on
SpringSolveAt(c, bs, delta, dist) ==
    IF dist = QZero THEN bs
    ELSE SpringApply(c, bs, SpringForce(c, bs, dist, PDiv(delta, dist)))

\* Spring.solve()
SpringSolve(c, bs) == SpringSolveAt(c, bs, Delta(c, bs), Magnitude(Delta(c, bs)))

\* Rod.solve moving A and stopping it as well
RodMoveAStopping(c, bs, correction) ==
    IF ~bs[c.a].static
    THEN [bs EXCEPT ![c.a].pos = PAdd(@, PMul(correction, bs[c.a].inv_mass)),
                    ![c.a].vel = PZero]
    ELSE bs

\* Rod.solve: a.pos += correction * a.inv_mass, unless a is static
RodMoveA(c, bs, correction) ==
    IF ~bs[c.a].static
    THEN [bs EXCEPT ![c.a].pos = PAdd(@, PMul(correction, bs[c.a].inv_mass))]
    ELSE bs

\* Rod.solve: b.pos -= correction * b.inv_mass, unless b is static
RodMoveB(c, bs, correction) ==
    IF ~bs[c.b].static
    THEN [bs EXCEPT ![c.b].pos = PSub(@, PMul(correction, bs[c.b].inv_mass))]
    ELSE bs

\* Rod.solve moving body A only
RodCorrectHalf(c, bs, correction) == RodMoveA(c, bs, correction)

\* Rod.solve: the two position corrections
RodCorrect(c, bs, correction) == RodMoveB(c, RodMoveA(c, bs, correction), correction)

\* Rod.solve splitting the error evenly between two dynamic bodies,
\* whatever their masses
RodSolveAtEven(c, bs, delta, dist, total_inv_mass) ==
    IF dist = QZero \/ total_inv_mass = QZero THEN bs
    ELSE IF bs[c.a].static \/ bs[c.b].static
    THEN RodCorrect(c, bs,
            PMul(PDiv(delta, dist), QDiv(QSub(dist, c.length), total_inv_mass)))
    ELSE [bs EXCEPT
            ![c.a].pos = PAdd(@, PMul(PDiv(delta, dist),
                                      QDiv(QSub(dist, c.length), Q(2)))),
            ![c.b].pos = PSub(@, PMul(PDiv(delta, dist),
                                      QDiv(QSub(dist, c.length), Q(2))))]

\* Rod.solve from the distance on
RodSolveAt(c, bs, delta, dist, total_inv_mass) ==
    IF dist = QZero THEN bs
    ELSE IF total_inv_mass = QZero THEN bs
    ELSE RodCorrect(c, bs,
            PMul(PDiv(delta, dist),
                 QDiv(QSub(dist, c.length), total_inv_mass)))

\* Rod.solve()
RodSolve(c, bs) ==
    RodSolveAt(c, bs, Delta(c, bs), Magnitude(Delta(c, bs)),
               QAdd(bs[c.a].inv_mass, bs[c.b].inv_mass))

\* Constraint.solve()
ConstraintSolve(c, bs) ==
    IF c.kind = "Spring" THEN SpringSolve(c, bs) ELSE RodSolve(c, bs)

---------------------------------------------------------------------------
(* Narrow-phase collision detection *)

NoCollision == [none |-> TRUE]

\* The Collision dataclass; a and b are the bodies (indices into the body list)
Collision(a, b, normal, depth, point) ==
    [a |-> a, b |-> b, normal |-> normal, depth |-> depth, point |-> point]

\* math.cos / math.sin: exact at 0, second-order elsewhere
Cos(t) == QSub(QOne, QDiv(QSq(t), Q(2)))
Sin(t) == t

\* getattr(b, "rotation", 0.0): Body defines angle, not rotation
BodyRotation(b) == QZero

\* _get_box_vertices: corners[k]
Corner(k, hw, hh) ==
    CASE k = 1 -> Pt(QNeg(hw), QNeg(hh))
      [] k = 2 -> Pt(hw, QNeg(hh))
      [] k = 3 -> Pt(hw, hh)
      [] k = 4 -> Pt(QNeg(hw), hh)

\* _get_box_vertices(b)
GetBoxVertices(b) ==
    [k \in 1..4 |->
        PAdd(Rotated(Corner(k, QDiv(b.collider.width, Q(2)),
                               QDiv(b.collider.height, Q(2))),
                     Cos(BodyRotation(b)), Sin(BodyRotation(b))),
             b.pos)]

\* _get_axes: Point(-edge.y, edge.x).normalize()
EdgeNormal(edge) == Normalize(Pt(QNeg(edge.y), edge.x))

\* _get_axes(verts)
GetAxes(verts) ==
    [k \in 1..Len(verts) |-> EdgeNormal(PSub(verts[(k % Len(verts)) + 1], verts[k]))]

RECURSIVE ProjectLoop(_, _, _, _, _)
ProjectLoop(verts, axis, k, min_p, max_p) ==
    IF k > Len(verts) THEN <<min_p, max_p>>
    ELSE ProjectLoop(verts, axis, k + 1,
                     QMin(Dot(verts[k], axis), min_p),
                     QMax(Dot(verts[k], axis), max_p))

\* _project(verts, axis)
Project(verts, axis) == ProjectLoop(verts, axis, 1, Inf, NegInf)

\* circle_to_circle: normal = n.normalize() if dist > 0 else Point(1, 0)
CircleNormal(n, dist) == IF QGt(dist, QZero) THEN Normalize(n) ELSE PtI(1, 0)

\* circle_to_circle: the collision returned, its contact on A's surface
CircleContact(bs, a, b, normal, depth) ==
    Collision(a, b, normal, depth,
              PAdd(bs[a].pos, PMul(normal, bs[a].collider.radius)))

\* circle_to_circle rejecting touching circles (dist >= r)
CircleCheckStrict(bs, a, b, n, dist, r) ==
    IF QLe(r, dist) THEN NoCollision
    ELSE CircleContact(bs, a, b, CircleNormal(n, dist), QSub(r, dist))

\* circle_to_circle from the distance check on
CircleCheck(bs, a, b, n, dist, r) ==
    IF QGt(dist, r) THEN NoCollision
    ELSE CircleContact(bs, a, b, CircleNormal(n, dist), QSub(r, dist))

\* circle_to_circle(a, b)
CircleToCircle(bs, a, b) ==
    CircleCheck(bs, a, b,
                PSub(bs[b].pos, bs[a].pos),
                Magnitude(PSub(bs[b].pos, bs[a].pos)),
                QAdd(bs[a].collider.radius, bs[b].collider.radius))

\* circle_to_box: max(-h, min(l, h))
Clamp(l, h) == QMax(QNeg(h), QMin(l, h))

\* circle_to_box: local_n before it is negated
LocalNormal(d, dist) == IF dist = QZero THEN PtI(0, -1) ELSE PDiv(d, dist)

\* circle_to_box, 3-4: world normal, depth and contact; c is the closest
\* point of the box, d = (dx, dy), both in the box frame
CircleBoxContact(bs, circ, box, c, d, dist, r) ==
    Collision(circ, box,
              Rotated(PMul(LocalNormal(d, dist), Q(-1)),
                      Cos(BodyRotation(bs[box])), Sin(BodyRotation(bs[box]))),
              IF dist = QZero THEN r ELSE QSub(r, dist),
              PAdd(bs[box].pos,
                   Rotated(c, Cos(BodyRotation(bs[box])), Sin(BodyRotation(bs[box])))))

\* circle_to_box: the distance check
CircleBoxCheck(bs, circ, box, c, d, r) ==
    IF QGt(Dot(d, d), QSq(r)) THEN NoCollision
    ELSE CircleBoxContact(bs, circ, box, c, d, QSqrt(Dot(d, d)), r)

\* circle_to_box, 2: closest point on the box; l = (lx, ly)
CircleBoxClosest(bs, circ, box, l, c) ==
    CircleBoxCheck(bs, circ, box, c, PSub(l, c), bs[circ].collider.radius)

\* circle_to_box from the circle's centre in the box frame on
CircleBoxLocal(bs, circ, box, l) ==
    CircleBoxClosest(bs, circ, box, l,
        Pt(Clamp(l.x, QDiv(bs[box].collider.width, Q(2))),
           Clamp(l.y, QDiv(bs[box].collider.height, Q(2)))))

\* circle_to_box(circ, box)
CircleToBox(bs, circ, box) ==
    CircleBoxLocal(bs, circ, box,
        Rotated(PSub(bs[circ].pos, bs[box].pos),
                Cos(QNeg(BodyRotation(bs[box]))), Sin(QNeg(BodyRotation(bs[box])))))

\* box_to_box: the SAT loop over the axes from index k on; the result is a
\* gap, or the least overlap and its axis.  pa and pb are the projections of
\* the two boxes on axes[k].
RECURSIVE SatLoop(_, _, _, _, _, _)
RECURSIVE SatAxis(_, _, _, _, _, _, _, _)
RECURSIVE SatOverlap(_, _, _, _, _, _, _)

SatOverlap(verts_a, verts_b, axes, k, min_overlap, best_axis, overlap) ==
    IF QLt(overlap, min_overlap)
    THEN SatLoop(verts_a, verts_b, axes, k + 1, overlap, axes[k])
    ELSE SatLoop(verts_a, verts_b, axes, k + 1, min_overlap, best_axis)

SatAxis(verts_a, verts_b, axes, k, min_overlap, best_axis, pa, pb) ==
    IF QLt(pa[2], pb[1]) \/ QLt(pb[2], pa[1])
    THEN [gap |-> TRUE, min_overlap |-> min_overlap, best_axis |-> best_axis]
    ELSE SatOverlap(verts_a, verts_b, axes, k, min_overlap, best_axis,
                    QSub(QMin(pa[2], pb[2]), QMax(pa[1], pb[1])))

SatLoop(verts_a, verts_b, axes, k, min_overlap, best_axis) ==
    IF k > Len(axes)
    THEN [gap |-> FALSE, min_overlap |-> min_overlap, best_axis |-> best_axis]
    ELSE SatAxis(verts_a, verts_b, axes, k, min_overlap, best_axis,
                 Project(verts_a, axes[k]), Project(verts_b, axes[k]))

\* box_to_box: first vertex of verts with the least projection on axis
RECURSIVE MinVertLoop(_, _, _, _, _)
MinVertLoop(verts, axis, k, min_proj, best) ==
    IF k > Len(verts) THEN best
    ELSE IF QLt(Dot(verts[k], axis), min_proj)
    THEN MinVertLoop(verts, axis, k + 1, Dot(verts[k], axis), verts[k])
    ELSE MinVertLoop(verts, axis, k + 1, min_proj, best)

\* box_to_box: best_axis turned to point from A to B
TowardsB(best_axis, direction) ==
    IF QLt(Dot(direction, best_axis), QZero) THEN PMul(best_axis, Q(-1))
    ELSE best_axis

\* box_to_box: the collision returned, its contact the deepest vertex of B
BoxContact(a, b, verts_b, min_overlap, best_axis) ==
    Collision(a, b, best_axis, min_overlap,
              MinVertLoop(verts_b, best_axis, 1, Inf, verts_b[1]))

\* box_to_box after the SAT loop
BoxAfterSat(bs, a, b, verts_b, sat) ==
    IF sat.gap THEN NoCollision
    ELSE BoxContact(a, b, verts_b, sat.min_overlap,
                    TowardsB(sat.best_axis, PSub(bs[b].pos, bs[a].pos)))

\* box_to_box on the vertices of the two boxes
BoxSat(bs, a, b, verts_a, verts_b) ==
    BoxAfterSat(bs, a, b, verts_b,
        SatLoop(verts_a, verts_b, GetAxes(verts_a) \o GetAxes(verts_b),
                1, Inf, PZero))

\* box_to_box(a, b)
BoxToBox(bs, a, b) == BoxSat(bs, a, b, GetBoxVertices(bs[a]), GetBoxVertices(bs[b]))

\* The solver functions by name
RunSolver(name, bs, a, b) ==
    CASE name = "circle_to_circle" -> CircleToCircle(bs, a, b)
      [] name = "circle_to_box" -> CircleToBox(bs, a, b)
      [] name = "box_to_box" -> BoxToBox(bs, a, b)

\* Collision._flip that negates the normal and leaves a and b as they were
FlipNormalOnly(c) == [c EXCEPT !.normal = PMul(c.normal, Q(-1))]

\* Collision._flip
Flip(c) == [c EXCEPT !.normal = PMul(c.normal, Q(-1)), !.a = c.b, !.b = c.a]

\* The lambda register stores: func(b, a)._flip() if func(b, a) else None
FlipIfAny(c) == IF c = NoCollision THEN NoCollision ELSE Flip(c)

\* Collision.register(t1, t2, func): the second assignment overwrites the
\* first when t1 = t2
Register(S, t1, t2, func) ==
    (<<t2, t1>> :> [func |-> func, flipped |-> TRUE])
        @@ (<<t1, t2>> :> [func |-> func, flipped |-> FALSE]) @@ S

\* SOLVERS after the three @solver decorators have run, in module order
SOLVERS ==
    Register(
        Register(
            Register(<< >>, "Circle", "Circle", "circle_to_circle"),
            "Circle", "Box", "circle_to_box"),
        "Box", "Box", "box_to_box")

\* s(a, b) for an entry s of SOLVERS
CallSolver(s, bs, a, b) ==
    IF s.flipped THEN FlipIfAny(RunSolver(s.func, bs, b, a))
    ELSE RunSolver(s.func, bs, a, b)

\* (t1, t2) = (type(a.collider), type(b.collider))
SolverKey(bs, a, b) == <<bs[a].collider.kind, bs[b].collider.kind>>

\* Collision.solve(a, b)
Solve(bs, a, b) ==
    IF SolverKey(bs, a, b) \notin DOMAIN SOLVERS THEN NoCollision
    ELSE CallSolver(SOLVERS[SolverKey(bs, a, b)], bs, a, b)

---------------------------------------------------------------------------
(* Impulse resolution *)

\* _apply_impulse scaling the impulse on B by the inverse mass of A
ApplyImpulseByMassOfA(c, bs, impulse, ra, rb) ==
    [i \in DOMAIN bs |->
        IF i = c.a /\ ~bs[c.a].static
        THEN [bs[i] EXCEPT
                !.vel = PSub(@, PMul(impulse, bs[c.a].inv_mass)),
                !.angular_vel = QSub(@, QMul(Cross(ra, impulse), bs[c.a].inv_inertia))]
        ELSE IF i = c.b /\ ~bs[c.b].static
        THEN [bs[i] EXCEPT
                !.vel = PAdd(@, PMul(impulse, bs[c.a].inv_mass)),
                !.angular_vel = QAdd(@, QMul(Cross(rb, impulse), bs[c.b].inv_inertia))]
        ELSE bs[i]]

\* Collision._apply_impulse(impulse, ra, rb)
ApplyImpulse(c, bs, impulse, ra, rb) ==
    [i \in DOMAIN bs |->
        IF i = c.a /\ ~bs[c.a].static
        THEN [bs[i] EXCEPT
                !.vel = PSub(@, PMul(impulse, bs[c.a].inv_mass)),
                !.angular_vel = QSub(@, QMul(Cross(ra, impulse), bs[c.a].inv_inertia))]
        ELSE IF i = c.b /\ ~bs[c.b].static
        THEN [bs[i] EXCEPT
                !.vel = PAdd(@, PMul(impulse, bs[c.b].inv_mass)),
                !.angular_vel = QAdd(@, QMul(Cross(rb, impulse), bs[c.b].inv_inertia))]
        ELSE bs[i]]

\* resolve, 1, correcting the whole penetration: percent 1.0 instead of 0.5
CorrectionFull(c, total_inv_mass) ==
    QDiv(QMax(QSub(c.depth, Frac(1, 100)), QZero), total_inv_mass)

\* resolve, 1: correction = max(depth - 0.01, 0.0) / total_inv_mass * 0.5
Correction(c, total_inv_mass) ==
    QMul(QDiv(QMax(QSub(c.depth, Frac(1, 100)), QZero), total_inv_mass),
         Frac(1, 2))

\* resolve, 1: a.pos -= move * a.inv_mass, unless a is static
SeparateA(c, bs, move) ==
    IF ~bs[c.a].static
    THEN [bs EXCEPT ![c.a].pos = PSub(@, PMul(move, bs[c.a].inv_mass))]
    ELSE bs

\* resolve, 1: b.pos += move * b.inv_mass, unless b is static
SeparateB(c, bs, move) ==
    IF ~bs[c.b].static
    THEN [bs EXCEPT ![c.b].pos = PAdd(@, PMul(move, bs[c.b].inv_mass))]
    ELSE bs

\* resolve, 1: positional correction
ResolvePositions(c, bs, move) == SeparateB(c, SeparateA(c, bs, move), move)

\* resolve, 3: V_p = V_cm + (w x r)
PointVelocity(b, r) ==
    PAdd(b.vel, Pt(QMul(QNeg(b.angular_vel), r.y), QMul(b.angular_vel, r.x)))

\* resolve, 4 and 5: 1/ma + 1/mb + (ra x d)^2 / Ia + (rb x d)^2 / Ib
InvMassSum(c, bs, ra, rb, d) ==
    QAdd(QAdd(QAdd(bs[c.a].inv_mass, bs[c.b].inv_mass),
              QMul(QSq(Cross(ra, d)), bs[c.a].inv_inertia)),
         QMul(QSq(Cross(rb, d)), bs[c.b].inv_inertia))

\* resolve, 4, with the restitution left out: j = -vel_along_normal / ...
ImpulseScalarInelastic(c, bs, ra, rb, vel_along_normal) ==
    QDiv(QNeg(vel_along_normal), InvMassSum(c, bs, ra, rb, c.normal))

\* resolve, 4: j = -(1 + e) * vel_along_normal / inv_mass_sum
ImpulseScalar(c, bs, ra, rb, vel_along_normal) ==
    QDiv(QMul(QNeg(QAdd(QOne, QMin(bs[c.a].material.restitution,
                                   bs[c.b].material.restitution))),
              vel_along_normal),
         InvMassSum(c, bs, ra, rb, c.normal))

\* resolve, 5, without the clamp
FrictionImpulseUnclamped(t, jt, max_j) == PMul(t, jt)

\* resolve, 5: Coulomb's law
FrictionImpulse(t, jt, max_j) ==
    IF QGt(QAbs(jt), max_j)
    THEN PMul(t, QMul(max_j, IF QGt(jt, QZero) THEN Q(1) ELSE Q(-1)))
    ELSE PMul(t, jt)

\* resolve, 5: the friction impulse along the tangent t
ResolveFriction(c, bs, ra, rb, rv, j, t) ==
    ApplyImpulse(c, bs,
        FrictionImpulse(t,
            QDiv(QNeg(Dot(rv, t)), InvMassSum(c, bs, ra, rb, t)),
            QMul(j, QSqrt(QMul(bs[c.a].material.friction,
                               bs[c.b].material.friction)))),
        ra, rb)

\* resolve, 4: the normal impulse, then friction
ResolveImpulse(c, bs, ra, rb, rv, vel_along_normal, j) ==
    ResolveFriction(c, ApplyImpulse(c, bs, PMul(c.normal, j), ra, rb),
                    ra, rb, rv, j,
                    Normalize(PSub(rv, PMul(c.normal, vel_along_normal))))

\* resolve without its return for separating bodies
ResolveAlongNormalAlways(c, bs, ra, rb, rv, vel_along_normal) ==
    ResolveImpulse(c, bs, ra, rb, rv, vel_along_normal,
                   ImpulseScalar(c, bs, ra, rb, vel_along_normal))

\* resolve from the velocity along the normal on
ResolveAlongNormal(c, bs, ra, rb, rv, vel_along_normal) ==
    IF QGt(vel_along_normal, QZero) THEN bs
    ELSE ResolveImpulse(c, bs, ra, rb, rv, vel_along_normal,
                        ImpulseScalar(c, bs, ra, rb, vel_along_normal))

\* resolve, 3: relative velocity at the contact point
ResolveAt(c, bs, ra, rb, rv) ==
    ResolveAlongNormal(c, bs, ra, rb, rv, Dot(rv, c.normal))

\* resolve, 2: lever arms
ResolveArms(c, bs, ra, rb) ==
    ResolveAt(c, bs, ra, rb,
              PSub(PointVelocity(bs[c.b], rb), PointVelocity(bs[c.a], ra)))

\* resolve, 2-5, on the corrected positions
ResolveVelocities(c, bs) ==
    ResolveArms(c, bs, PSub(c.point, bs[c.a].pos), PSub(c.point, bs[c.b].pos))

\* resolve from total_inv_mass on
ResolveWith(c, bs, total_inv_mass) ==
    IF total_inv_mass = QZero THEN bs
    ELSE ResolveVelocities(c,
            ResolvePositions(c, bs, PMul(c.normal, Correction(c, total_inv_mass))))

\* Collision.resolve()
Resolve(c, bs) == ResolveWith(c, bs, QAdd(bs[c.a].inv_mass, bs[c.b].inv_mass))

---------------------------------------------------------------------------
(* World._step: the four phases.  A phase works on w = [bodies, log, err]:  *)
(* the bodies, the elements touched so far and the exception raised so far  *)
(* (an exception ends the step where it is raised).                         *)

Event(phase, i, j) == [phase |-> phase, i |-> i, j |-> j]

\* The world after a call that returned r = [bodies, err], logged as ev
After(w, r, ev) ==
    [bodies |-> r.bodies, log |-> Append(w.log, ev), err |-> r.err]

\* for f in self.fields: f.apply(self.bodies)
RECURSIVE FieldsPhase(_, _, _)
FieldsPhase(fs, k, w) ==
    IF k > Len(fs) \/ w.err /= "none" THEN w
    ELSE FieldsPhase(fs, k + 1,
            After(w, FieldApply(fs[k], w.bodies), Event("field", k, 0)))

\* for c in self.constraints: c.solve()
RECURSIVE ConstraintsPhase(_, _, _)
ConstraintsPhase(cs, k, w) ==
    IF k > Len(cs) \/ w.err /= "none" THEN w
    ELSE ConstraintsPhase(cs, k + 1,
            [w EXCEPT !.bodies = ConstraintSolve(cs[k], w.bodies),
                      !.log = Append(w.log, Event("constraint", k, 0))])

\* for b in self.bodies: b.integrate(dt)
IntegratePhase(dt, w) ==
    IF w.err /= "none" THEN w
    ELSE [w EXCEPT
            !.bodies = [i \in DOMAIN w.bodies |-> Integrate(w.bodies[i], dt)],
            !.log = w.log \o [i \in 1..Len(w.bodies) |-> Event("integrate", i, 0)]]

\* if col := Collision.solve(a, b): col.resolve()
Collide(bs, c) == IF c = NoCollision THEN bs ELSE Resolve(c, bs)

\* for i in range(count): for j in range(i + 1, count): ...
RECURSIVE CollisionLoop(_, _, _)
CollisionLoop(i, j, w) ==
    IF i > Len(w.bodies) THEN w
    ELSE IF j > Len(w.bodies) THEN CollisionLoop(i + 1, i + 2, w)
    ELSE IF w.bodies[i].static /\ w.bodies[j].static
    THEN CollisionLoop(i, j + 1,
            [w EXCEPT !.log = Append(w.log, Event("skip", i, j))])
    ELSE CollisionLoop(i, j + 1,
            [w EXCEPT !.bodies = Collide(w.bodies, Solve(w.bodies, i, j)),
                      !.log = Append(w.log, Event("collide", i, j))])

\* The loop without the static-static shortcut
RECURSIVE CollisionLoopStatics(_, _, _)
CollisionLoopStatics(i, j, w) ==
    IF i > Len(w.bodies) THEN w
    ELSE IF j > Len(w.bodies) THEN CollisionLoopStatics(i + 1, i + 2, w)
    ELSE CollisionLoopStatics(i, j + 1,
            [w EXCEPT !.bodies = Collide(w.bodies, Solve(w.bodies, i, j)),
                      !.log = Append(w.log, Event("collide", i, j))])

CollisionPhaseStatics(w) ==
    IF w.err /= "none" THEN w ELSE CollisionLoopStatics(1, 2, w)

\* The loop detecting every pair on the bodies as the phase found them
RECURSIVE CollisionLoopSnapshot(_, _, _, _)
CollisionLoopSnapshot(i, j, w, found) ==
    IF i > Len(w.bodies) THEN w
    ELSE IF j > Len(w.bodies) THEN CollisionLoopSnapshot(i + 1, i + 2, w, found)
    ELSE IF w.bodies[i].static /\ w.bodies[j].static
    THEN CollisionLoopSnapshot(i, j + 1,
            [w EXCEPT !.log = Append(w.log, Event("skip", i, j))], found)
    ELSE CollisionLoopSnapshot(i, j + 1,
            [w EXCEPT !.bodies = Collide(w.bodies, Solve(found, i, j)),
                      !.log = Append(w.log, Event("collide", i, j))], found)

CollisionPhaseSnapshot(w) ==
    IF w.err /= "none" THEN w ELSE CollisionLoopSnapshot(1, 2, w, w.bodies)

CollisionPhase(w) == IF w.err /= "none" THEN w ELSE CollisionLoop(1, 2, w)

\* World._step with the bodies integrated before the constraints are solved
WorldStepIntegrateFirst(bs, fs, cs, dt) ==
    CollisionPhase(
        ConstraintsPhase(cs, 1,
            IntegratePhase(dt,
                FieldsPhase(fs, 1, [bodies |-> bs, log |-> << >>, err |-> "none"]))))

\* World._step(dt)
WorldStep(bs, fs, cs, dt) ==
    CollisionPhase(
        IntegratePhase(dt,
            ConstraintsPhase(cs, 1,
                FieldsPhase(fs, 1, [bodies |-> bs, log |-> << >>, err |-> "none"]))))

\* int(x) for x >= 0
QTrunc(a) == a[1] \div a[2]

\* The value of a call that returned nothing, or did not return
NoReturn == [none |-> TRUE]

\* total_bounds = None
NoBounds == [none |-> TRUE]

\* d[key] = value, for a dict kept as the sequence of its (key, value) items
\* in insertion order
DictSet(d, key, value) ==
    IF \E k \in DOMAIN d : d[k][1] = key
    THEN [k \in DOMAIN d |-> IF d[k][1] = key THEN <<key, value>> ELSE d[k]]
    ELSE Append(d, <<key, value>>)

\* d.values()
Values(d) == [k \in DOMAIN d |-> d[k][2]]

\* tracks = {b: {"tx": {}, "ty": {}, "rotation": {}} for b in self.bodies}
NewTracks(bs) ==
    [i \in DOMAIN bs |-> [tx |-> << >>, ty |-> << >>, rotation |-> << >>]]

\* t_norm = time / duration if duration > 0 else 0
TNorm(time, duration) ==
    IF QGt(duration, QZero) THEN QDiv(time, duration) ELSE QZero

\* World.simulate, 1. Record: tx and ty of the first body are written, then
\* the read of b.rotation, which Body does not define, ends the call with
\* AttributeError.
Record(w, t_norm) ==
    IF Len(w.bodies) = 0 THEN w
    ELSE [w EXCEPT !.tracks[1].tx = DictSet(@, t_norm, w.bodies[1].pos.x),
                   !.tracks[1].ty = DictSet(@, t_norm, w.bodies[1].pos.y),
                   !.err = "AttributeError"]

\* The world after one more step s of a simulation
Advanced(w, s) ==
    [w EXCEPT !.bodies = s.bodies, !.log = w.log \o s.log, !.err = s.err]

\* World.simulate, 2. Physics Step: self._step(dt); time += dt
StepRecorded(args, w) ==
    IF w.err /= "none" THEN w
    ELSE [Advanced(w, WorldStep(w.bodies, args.fs, args.cs, args.dt))
            EXCEPT !.time = QAdd(@, args.dt)]

\* World.simulate: for _ in range(steps): record, then step
RECURSIVE SimulateLoop(_, _, _, _)
SimulateLoop(k, steps, args, w) ==
    IF k > steps \/ w.err /= "none" THEN w
    ELSE SimulateLoop(k + 1, steps, args,
            StepRecorded(args, Record(w, TNorm(w.time, args.duration))))

\* Bounds(x, y, width, height)
Bounds(x, y, width, height) == [x |-> x, y |-> y, width |-> width, height |-> height]

\* shape.local(): the bounds of the shape centred at the origin
ShapeLocal(shape) ==
    Bounds(QNeg(QDiv(shape.w, Q(2))), QNeg(QDiv(shape.h, Q(2))), shape.w, shape.h)

\* min(values) and max(values) of a non-empty sequence, from index k on
RECURSIVE MinFrom(_, _, _)
MinFrom(values, k, least) ==
    IF k > Len(values) THEN least
    ELSE MinFrom(values, k + 1, QMin(least, values[k]))

RECURSIVE MaxFrom(_, _, _)
MaxFrom(values, k, most) ==
    IF k > Len(values) THEN most
    ELSE MaxFrom(values, k + 1, QMax(most, values[k]))

MinOf(values) == MinFrom(values, 2, values[1])
MaxOf(values) == MaxFrom(values, 2, values[1])

\* World.simulate, 3: b_bounds, the shape's local bounds swept over the
\* recorded translations
SweptBounds(local, tx_values, ty_values) ==
    Bounds(QAdd(MinOf(tx_values), local.x),
           QAdd(MinOf(ty_values), local.y),
           QAdd(QSub(MaxOf(tx_values), MinOf(tx_values)), local.width),
           QAdd(QSub(MaxOf(ty_values), MinOf(ty_values)), local.height))

\* World.simulate, 3: all_bounds, one entry per body with recorded samples
RECURSIVE AllBounds(_, _, _)
AllBounds(bs, tracks, i) ==
    IF i > Len(bs) THEN << >>
    ELSE IF tracks[i].tx /= << >> /\ tracks[i].ty /= << >>
    THEN <<SweptBounds(ShapeLocal(bs[i].shape),
                       Values(tracks[i].tx), Values(tracks[i].ty))>>
            \o AllBounds(bs, tracks, i + 1)
    ELSE AllBounds(bs, tracks, i + 1)

\* Bounds.union(*bounds) of a non-empty list
BoundsUnion(bounds) ==
    Bounds(MinOf([k \in DOMAIN bounds |-> bounds[k].x]),
           MinOf([k \in DOMAIN bounds |-> bounds[k].y]),
           QSub(MaxOf([k \in DOMAIN bounds |-> QAdd(bounds[k].x, bounds[k].width)]),
                MinOf([k \in DOMAIN bounds |-> bounds[k].x])),
           QSub(MaxOf([k \in DOMAIN bounds |-> QAdd(bounds[k].y, bounds[k].height)]),
                MinOf([k \in DOMAIN bounds |-> bounds[k].y])))

\* total_bounds = Bounds.union(*all_bounds) if all_bounds else None
TotalBounds(all_bounds) ==
    IF all_bounds = << >> THEN NoBounds ELSE BoundsUnion(all_bounds)

\* KeyframeAnimation(b.shape, tx=..., ty=..., rotation=...): the baked track
\* of body i
KeyframeAnimation(i, shape, track) ==
    [body |-> i, shape |-> shape, tx |-> track.tx, ty |-> track.ty,
     rotation |-> track.rotation]

\* PhysicsAnimation(*anims, bounds=total_bounds)
PhysicsAnimation(anims, bounds) == [children |-> anims, bounds |-> bounds]

\* World.simulate, 3. Bake and Compute Bounds: the value returned
Bake(w) ==
    PhysicsAnimation(
        [i \in DOMAIN w.bodies |->
            KeyframeAnimation(i, w.bodies[i].shape, w.tracks[i])],
        TotalBounds(AllBounds(w.bodies, w.tracks, 1)))

\* The end of World.simulate: the baked animation, unless the loop raised
Returned(w) ==
    [bodies |-> w.bodies, log |-> w.log, err |-> w.err,
     ret |-> IF w.err /= "none" THEN NoReturn ELSE Bake(w)]

\* World.simulate(duration, dt)
WorldSimulate(bs, fs, cs, duration, dt) ==
    Returned(
        SimulateLoop(1, QTrunc(QDiv(duration, dt)),
                     [fs |-> fs, cs |-> cs, duration |-> duration, dt |-> dt],
                     [bodies |-> bs, log |-> << >>, err |-> "none",
                      tracks |-> NewTracks(bs), time |-> QZero]))

---------------------------------------------------------------------------
(* Bodies as the tests set them up: construct, then assign pos and vel *)

\* Body(Circle(r), collider=CircleCollider(r), static=...)
CircleBody(r, pos, vel, static) ==
    [NewBody(Shape(Q(2 * r), Q(2 * r), pos.x, pos.y, QZero),
             CircleCollider(Q(r)), DefaultMaterial, static)
        EXCEPT !.pos = pos, !.vel = vel]

\* Body(Rect(w, h), static=...): the collider defaults to a box
BoxBody(w, h, pos, vel, static) ==
    [NewBody(Shape(Q(w), Q(h), pos.x, pos.y, QZero),
             NoCollider, DefaultMaterial, static)
        EXCEPT !.pos = pos, !.vel = vel]

KindBody(kind, pos, vel, static) ==
    IF kind = "Circle" THEN CircleBody(10, pos, vel, static)
    ELSE BoxBody(20, 20, pos, vel, static)

Kinds == {"Circle", "Box"}

\* A keyword argument the caller did not pass
NotPassed == [none |-> TRUE]

NoOp ==
    [name |-> "none", i |-> 0, j |-> 0, dt |-> QZero, duration |-> QZero,
     shape |-> NotPassed, kwargs |-> NotPassed]

---------------------------------------------------------------------------
(* The world driver: a world is built, then stepped or simulated *)

\* Worlds stacked along the y axis (the axis gravity acts on): a first body
\* at the origin, a second above it, possibly a third below
FirstBodies ==
    { KindBody(k, PtI(0, 0), PZero, FALSE) : k \in Kinds } \cup
    { KindBody(k, PtI(0, 0), PtI(0, -2), TRUE) : k \in Kinds }

SecondBodies ==
    { KindBody(k, PtI(0, -15), PZero, FALSE) : k \in Kinds } \cup
    { KindBody(k, PtI(0, -40), PtI(0, 8), FALSE) : k \in Kinds } \cup
    { KindBody(k, PtI(0, -15), PZero, TRUE) : k \in Kinds }

ThirdBodies ==
    { << >>,
      <<CircleBody(10, PtI(0, 18), PZero, FALSE)>>,
      <<CircleBody(10, PtI(0, -6), PZero, FALSE)>> }

WorldBodies ==
    { << >> } \cup
    { <<b1, b2>> \o third :
        b1 \in FirstBodies, b2 \in SecondBodies, third \in ThirdBodies }

WorldFields ==
    { << >>,
      <<Gravity(Q(10))>>,
      <<Gravity(Q(10)), Drag(Frac(1, 2))>>,
      <<Drag(Frac(1, 2)), InverseDistanceField(Q(1000), PZero, 2), Gravity(Q(10))>> }

WorldConstraints(bs) ==
    IF Len(bs) < 2 THEN { << >> }
    ELSE { << >>,
           <<Rod(1, 2, Q(20))>>,
           <<Spring(2, 1, Q(30), Frac(1, 10), Frac(1, 10)), Rod(1, 2, Q(20))>> }

StepSizes == {Frac(1, 2), QOne}

\* (duration, dt) of a simulate call: two steps, or none
SimulateArgs == { <<QOne, Frac(1, 2)>>, <<Frac(1, 4), Frac(1, 2)>> }

Init ==
    /\ bodies \in WorldBodies
    /\ fields \in WorldFields
    /\ constraints \in WorldConstraints(bodies)
    /\ initial = bodies
    /\ pre = bodies
    /\ op = NoOp
    /\ log = << >>
    /\ raised = "none"
    /\ col = NoCollision
    /\ colRev = NoCollision
    /\ ret = NoReturn
    /\ nops = 0

\* world._step(dt)
DoStep(dt) ==
    /\ \E w \in {WorldStep(bodies, fields, constraints, dt)} :
           /\ bodies' = w.bodies
           /\ log' = w.log
           /\ raised' = w.err
    /\ pre' = bodies
    /\ op' = [NoOp EXCEPT !.name = "step", !.dt = dt]
    /\ ret' = NoReturn
    /\ nops' = nops + 1
    /\ UNCHANGED <<fields, constraints, initial, col, colRev>>

Step(dt) == nops < MaxOps /\ DoStep(dt)

\* world.simulate(duration, dt)
DoSimulate(duration, dt) ==
    /\ \E w \in {WorldSimulate(bodies, fields, constraints, duration, dt)} :
           /\ bodies' = w.bodies
           /\ log' = w.log
           /\ raised' = w.err
           /\ ret' = w.ret
    /\ pre' = bodies
    /\ op' = [NoOp EXCEPT !.name = "simulate", !.dt = dt, !.duration = duration]
    /\ nops' = nops + 1
    /\ UNCHANGED <<fields, constraints, initial, col, colRev>>

Simulate(duration, dt) == nops < MaxOps /\ DoSimulate(duration, dt)

Next ==
    \/ \E dt \in StepSizes : Step(dt)
    \/ \E args \in SimulateArgs : Simulate(args[1], args[2])

Spec == Init /\ [][Next]_vars

---------------------------------------------------------------------------
(* A world built call by call: World(), then add, constraint, appends to   *)
(* world.fields, steps and simulate calls in any order                     *)

MaxCalls == 4

\* The keyword arguments of a call add(shape, **kwargs)
Kwargs(collider, static, mass) ==
    [collider |-> collider, static |-> static, mass |-> mass]

\* Body(shape, **kwargs): the constructor takes collider, material and static;
\* any other keyword is a TypeError
BodyInit(shape, kwargs) ==
    IF kwargs.mass /= NotPassed
    THEN [err |-> "TypeError"]
    ELSE [err |-> "none",
          b |-> NewBody(shape, kwargs.collider, DefaultMaterial, kwargs.static)]

\* World.add(shape, **kwargs): b = Body(shape, **kwargs); append; return b.
\* The returned body is named by its place in world.bodies.
WorldAdd(bs, made) ==
    IF made.err /= "none"
    THEN [bodies |-> bs, err |-> made.err, ret |-> NoReturn]
    ELSE [bodies |-> Append(bs, made.b), err |-> "none",
          ret |-> [body |-> Len(bs) + 1]]

\* Rect(10, 10) and Circle(5), both with bounds 10x10 about the origin
AddedShapes == { Shape(Q(10), Q(10), QZero, QZero, QZero) }

AddedKwargs ==
    { Kwargs(NoCollider, FALSE, NotPassed),
      Kwargs(NoCollider, TRUE, NotPassed),
      Kwargs(CircleCollider(Q(5)), FALSE, NotPassed),
      Kwargs(NoCollider, FALSE, Q(5)),
      Kwargs(NoCollider, TRUE, Q(5)) }

\* World()
InitWorld ==
    /\ bodies = << >>
    /\ fields = << >>
    /\ constraints = << >>
    /\ initial = << >>
    /\ pre = << >>
    /\ op = NoOp
    /\ log = << >>
    /\ raised = "none"
    /\ col = NoCollision
    /\ colRev = NoCollision
    /\ ret = NoReturn
    /\ nops = 0

\* world.add(shape, **kwargs)
Add(shape, kwargs) ==
    /\ nops < MaxCalls
    /\ \E w \in {WorldAdd(bodies, BodyInit(shape, kwargs))} :
           /\ bodies' = w.bodies
           /\ raised' = w.err
           /\ ret' = w.ret
    /\ pre' = bodies
    /\ op' = [NoOp EXCEPT !.name = "add", !.shape = shape, !.kwargs = kwargs]
    /\ log' = << >>
    /\ nops' = nops + 1
    /\ UNCHANGED <<fields, constraints, initial, col, colRev>>

\* world.fields.append(f)
AppendField(f) ==
    /\ nops < MaxCalls
    /\ fields' = Append(fields, f)
    /\ pre' = bodies
    /\ op' = [NoOp EXCEPT !.name = "field"]
    /\ log' = << >>
    /\ raised' = "none"
    /\ ret' = NoReturn
    /\ nops' = nops + 1
    /\ UNCHANGED <<bodies, constraints, initial, col, colRev>>

\* world.constraint(c): append c and return it
AddConstraint(c) ==
    /\ nops < MaxCalls
    /\ Len(bodies) >= 2
    /\ constraints' = Append(constraints, c)
    /\ pre' = bodies
    /\ op' = [NoOp EXCEPT !.name = "constrain"]
    /\ log' = << >>
    /\ raised' = "none"
    /\ ret' = [constraint |-> Len(constraints) + 1]
    /\ nops' = nops + 1
    /\ UNCHANGED <<bodies, fields, initial, col, colRev>>

NextWorld ==
    \/ \E shape \in AddedShapes, kwargs \in AddedKwargs : Add(shape, kwargs)
    \/ AppendField(Gravity(Q(10)))
    \/ AddConstraint(Rod(1, 2, Q(20)))
    \/ nops < MaxCalls /\ DoStep(Frac(1, 2))
    \/ \E args \in SimulateArgs : nops < MaxCalls /\ DoSimulate(args[1], args[2])

SpecWorld == InitWorld /\ [][NextWorld]_vars

---------------------------------------------------------------------------
(* One body driven directly: forces applied, then integrated *)

\* A body of either kind at the origin, moving and spinning or not
BodiesUnderTest ==
    { [KindBody(k, PZero, vel, static) EXCEPT !.angular_vel = angular_vel] :
        k \in Kinds, vel \in {PZero, PtI(10, 0)}, static \in BOOLEAN,
        angular_vel \in {QZero, Q(2)} }

\* apply_force(force) and apply_force(force, point)
ForcesApplied == { PtI(0, 10), PtI(-20, 0) }
PointsApplied == { NoPoint, PtI(5, 0) }

InitBody ==
    /\ bodies \in { <<b>> : b \in BodiesUnderTest }
    /\ fields = << >>
    /\ constraints = << >>
    /\ initial = bodies
    /\ pre = bodies
    /\ op = NoOp
    /\ log = << >>
    /\ raised = "none"
    /\ col = NoCollision
    /\ colRev = NoCollision
    /\ ret = NoReturn
    /\ nops = 0

\* body.apply_force(force, point)
ApplyForceTo(force, point) ==
    /\ nops < MaxOps
    /\ bodies' = <<ApplyForce(bodies[1], force, point)>>
    /\ pre' = bodies
    /\ op' = [NoOp EXCEPT !.name = "apply_force"]
    /\ log' = << >>
    /\ raised' = "none"
    /\ ret' = NoReturn
    /\ nops' = nops + 1
    /\ UNCHANGED <<fields, constraints, initial, col, colRev>>

\* body.integrate(dt)
IntegrateBody(dt) ==
    /\ nops < MaxOps
    /\ bodies' = <<Integrate(bodies[1], dt)>>
    /\ pre' = bodies
    /\ op' = [NoOp EXCEPT !.name = "integrate", !.dt = dt]
    /\ log' = << >>
    /\ raised' = "none"
    /\ ret' = NoReturn
    /\ nops' = nops + 1
    /\ UNCHANGED <<fields, constraints, initial, col, colRev>>

NextBody ==
    \/ \E force \in ForcesApplied, point \in PointsApplied :
            ApplyForceTo(force, point)
    \/ \E dt \in StepSizes : IntegrateBody(dt)

SpecBody == InitBody /\ [][NextBody]_vars

---------------------------------------------------------------------------
(* Constraints solved directly on two bodies, as the constraint tests do *)

\* Body(Circle(5)): bounds 10x10, default box collider, inverse mass 10;
\* the larger body has bounds 20x20 and inverse mass 5/2
SmallBody(pos, vel, static) == BoxBody(10, 10, pos, vel, static)
LargeBody(pos, vel, static) == BoxBody(20, 20, pos, vel, static)

\* b.pos - a.pos
ConstraintOffsets ==
    { PtI(100, 0), PtI(50, 0), PtI(0, 0), PtI(30, 40), PtI(-6, 8), PtI(0, -20),
      PtI(60, 80) }

ConstraintBodies ==
    { << SmallBody(PtI(0, 0), va, sa),
         IF large THEN LargeBody(d, vb, sb) ELSE SmallBody(d, vb, sb) >> :
        d \in ConstraintOffsets,
        va \in {PZero, PtI(10, 0)},
        vb \in {PZero, PtI(0, -5)},
        sa \in BOOLEAN, sb \in BOOLEAN,
        large \in BOOLEAN }

ConstraintsUnderTest ==
    { <<Rod(1, 2, Q(50))>>,
      <<Rod(1, 2, Q(20))>>,
      <<Spring(1, 2, Q(50), Frac(1, 10), Frac(1, 10))>>,
      <<Spring(1, 2, Q(50), QOne, Frac(1, 2))>> }

InitConstraint ==
    /\ bodies \in ConstraintBodies
    /\ fields = << >>
    /\ constraints \in ConstraintsUnderTest
    /\ initial = bodies
    /\ pre = bodies
    /\ op = NoOp
    /\ log = << >>
    /\ raised = "none"
    /\ col = NoCollision
    /\ colRev = NoCollision
    /\ ret = NoReturn
    /\ nops = 0

\* c.solve() for the k-th constraint
SolveConstraint(k) ==
    /\ nops < MaxOps
    /\ bodies' = ConstraintSolve(constraints[k], bodies)
    /\ pre' = bodies
    /\ op' = [NoOp EXCEPT !.name = "constraint", !.i = k]
    /\ log' = << >>
    /\ raised' = "none"
    /\ ret' = NoReturn
    /\ nops' = nops + 1
    /\ UNCHANGED <<fields, constraints, initial, col, colRev>>

NextConstraint == \E k \in DOMAIN constraints : SolveConstraint(k)

SpecConstraint == InitConstraint /\ [][NextConstraint]_vars

---------------------------------------------------------------------------
(* Collision.solve and Collision.resolve on two bodies, as the collision   *)
(* tests do                                                                *)

\* b.pos - a.pos for two circles: every distance is rational
CircleCircleOffsets ==
    { PtI(0, 0), PtI(15, 0), PtI(20, 0), PtI(21, 0), PtI(100, 0), PtI(12, 16),
      PtI(9, 12), PtI(6, 8), PtI(0, -15), PtI(-12, -16), PtI(0, 10) }

\* circle.pos - box.pos for a 20x20 box: inside, beside, at a corner, away
CircleBoxOffsets ==
    { PtI(0, 0), PtI(5, 0), PtI(0, 5), PtI(12, 0), PtI(13, 14), PtI(-13, -14),
      PtI(0, -18), PtI(16, 18), PtI(0, 20), PtI(30, 0) }

\* b.pos - a.pos for two boxes
BoxBoxOffsets ==
    { PtI(0, 0), PtI(5, 0), PtI(10, 5), PtI(10, 10), PtI(20, 0),
      PtI(50, 50), PtI(0, -8), PtI(-25, 0), PtI(-10, 5) }

Radii == {10, 5}
BoxSizes == { <<20, 20>>, <<20, 10>> }
Origins == { PtI(0, 0) }

\* The geometric placements: (a, b) by collider kinds
SolvePlacements ==
    { << CircleBody(ra, o, PZero, FALSE), CircleBody(rb, PAdd(o, d), PZero, FALSE) >> :
        ra \in Radii, rb \in Radii, d \in CircleCircleOffsets, o \in Origins }
    \cup
    { << CircleBody(r, PAdd(o, d), PZero, FALSE), BoxBody(20, 20, o, PZero, FALSE) >> :
        r \in Radii, d \in CircleBoxOffsets, o \in Origins }
    \cup
    { << BoxBody(20, 20, o, PZero, FALSE), CircleBody(r, PAdd(o, d), PZero, FALSE) >> :
        r \in Radii, d \in CircleBoxOffsets, o \in Origins }
    \cup
    { << BoxBody(sa[1], sa[2], o, PZero, FALSE),
         BoxBody(sb[1], sb[2], PAdd(o, d), PZero, FALSE) >> :
        sa \in BoxSizes, sb \in BoxSizes, d \in BoxBoxOffsets, o \in Origins }

\* Body(..., static=s) with its velocity assigned
Placed(b, vel, static) ==
    [b EXCEPT !.vel = vel, !.static = static,
              !.inv_mass = IF static THEN QZero ELSE @,
              !.inv_inertia = IF static THEN QZero ELSE @]

\* (a.vel, b.vel, a.static, b.static)
SolveMotions ==
    { <<PZero, PZero, FALSE, FALSE>>,
      <<PtI(4, 0), PtI(-4, 0), FALSE, FALSE>>,
      <<PZero, PtI(-4, 0), TRUE, FALSE>>,
      <<PZero, PZero, TRUE, TRUE>> }

\* Body(Circle(r), collider=CircleCollider(r), material=Material(1, 1.0, 0.3))
ElasticBody(r, pos, vel) ==
    [NewBody(Shape(Q(2 * r), Q(2 * r), pos.x, pos.y, QZero),
             CircleCollider(Q(r)), Material(QOne, QOne, Frac(3, 10)), FALSE)
        EXCEPT !.pos = pos, !.vel = vel]

\* Two perfectly elastic circles meeting head-on, along the line of centres:
\* (b.pos - a.pos, a.vel, b.vel)
HeadOnMeetings ==
    { <<PtI(15, 0), PtI(4, 0), PtI(-4, 0)>>,
      <<PtI(15, 0), PtI(6, 0), PtI(2, 0)>>,
      <<PtI(12, 16), PtI(3, 4), PtI(-3, -4)>>,
      <<PtI(0, -15), PZero, PtI(0, 8)>> }

ElasticPairs ==
    { << ElasticBody(10, PZero, h[2]), ElasticBody(rb, h[1], h[3]) >> :
        h \in HeadOnMeetings, rb \in {10, 5} }

\* A quarter turn, in radians (math.pi / 2 to two places)
QuarterTurn == Frac(157, 100)

\* A 20x10 box or a circle beside a 20x20 box at the origin:
\* (kind, pos) of the second body
TurnedMeetings ==
    { <<"Box", PtI(18, 0)>>, <<"Box", PtI(0, -18)>>, <<"Box", PtI(5, 0)>>,
      <<"Box", PtI(40, 0)>>, <<"Circle", PtI(18, 0)>> }

\* b.angle = math.pi / 2 assigned to either body, as pos and vel are
TurnedPairs ==
    { << [BoxBody(20, 10, PZero, PZero, FALSE) EXCEPT !.angle = turn[1]],
         [(IF t[1] = "Box" THEN BoxBody(20, 20, t[2], PZero, FALSE)
                           ELSE CircleBody(5, t[2], PZero, FALSE))
             EXCEPT !.angle = turn[2]] >> :
        t \in TurnedMeetings,
        turn \in { <<QuarterTurn, QZero>>, <<QZero, QuarterTurn>> } }

\* Two overlapping 20x20 boxes, spinning or not as they meet:
\* a.angular_vel and b.angular_vel assigned as pos and vel are
SpinningPairs ==
    { << [BoxBody(20, 20, PZero, va, FALSE) EXCEPT !.angular_vel = wa],
         [BoxBody(20, 20, d, PZero, FALSE) EXCEPT !.angular_vel = wb] >> :
        d \in { PtI(18, 4), PtI(10, 15) },
        va \in { PZero, PtI(4, 0), PtI(-4, 2) },
        wa \in { QZero, QOne, Q(-1) },
        wb \in { QZero, Frac(1, 2) } }

SolveBodies ==
    { << Placed(p[1], m[1], m[3]), Placed(p[2], m[2], m[4]) >> :
        p \in SolvePlacements, m \in SolveMotions }
    \cup ElasticPairs \cup TurnedPairs \cup SpinningPairs

InitSolve ==
    /\ bodies \in SolveBodies
    /\ fields = << >>
    /\ constraints = << >>
    /\ initial = bodies
    /\ pre = bodies
    /\ op = NoOp
    /\ log = << >>
    /\ raised = "none"
    /\ col = NoCollision
    /\ colRev = NoCollision
    /\ ret = NoReturn
    /\ nops = 0

\* col = Collision.solve(bodies[i], bodies[j]), and the same pair taken the
\* other way round
SolvePair(i, j) ==
    /\ nops < MaxOps
    /\ i /= j
    /\ col' = Solve(bodies, i, j)
    /\ colRev' = Solve(bodies, j, i)
    /\ pre' = bodies
    /\ op' = [NoOp EXCEPT !.name = "solve", !.i = i, !.j = j]
    /\ log' = << >>
    /\ raised' = "none"
    /\ ret' = NoReturn
    /\ nops' = nops + 1
    /\ UNCHANGED <<bodies, fields, constraints, initial>>

\* col.resolve() on the collision just found
ResolveCol ==
    /\ nops < MaxOps
    /\ op.name = "solve"
    /\ col /= NoCollision
    /\ bodies' = Resolve(col, bodies)
    /\ pre' = bodies
    /\ op' = [op EXCEPT !.name = "resolve"]
    /\ log' = << >>
    /\ raised' = "none"
    /\ ret' = NoReturn
    /\ nops' = nops + 1
    /\ UNCHANGED <<fields, constraints, initial, col, colRev>>

NextSolve ==
    \/ \E i \in DOMAIN bodies, j \in DOMAIN bodies : SolvePair(i, j)
    \/ ResolveCol

SpecSolve == InitSolve /\ [][NextSolve]_vars

---------------------------------------------------------------------------
(* Two bodies with a constraint between them, on which the constraint is   *)
(* solved and collisions are found and resolved, in any order              *)

\* The two bodies coincide, overlap or are apart
GuardedBodies ==
    { bs \in ConstraintBodies : bs[2].pos \in { PtI(0, 0), PtI(-6, 8), PtI(30, 40) } }

InitGuarded ==
    /\ bodies \in GuardedBodies
    /\ fields = << >>
    /\ constraints \in { <<Rod(1, 2, Q(20))>>,
                          <<Spring(1, 2, Q(50), Frac(1, 10), Frac(1, 10))>> }
    /\ initial = bodies
    /\ pre = bodies
    /\ op = NoOp
    /\ log = << >>
    /\ raised = "none"
    /\ col = NoCollision
    /\ colRev = NoCollision
    /\ ret = NoReturn
    /\ nops = 0

NextGuarded ==
    \/ NextConstraint
    \/ NextSolve

SpecGuarded == InitGuarded /\ [][NextGuarded]_vars

---------------------------------------------------------------------------
(* Exact rational arithmetic for stating properties: no rounding, results *)
(* in lowest terms with a positive denominator                            *)

\* Least common multiple of two positive integers
Lcm(a, b) == (a \div GCD(a, b)) * b

XAdd(a, b) ==
    LET l == Lcm(a[2], b[2])
    IN  Reduce(a[1] * (l \div a[2]) + b[1] * (l \div b[2]), l)
XSub(a, b) == XAdd(a, QNeg(b))
XMul(a, b) == Reduce(a[1] * b[1], a[2] * b[2])
XEq(a, b) == Reduce(a[1], a[2]) = Reduce(b[1], b[2])
XLt(a, b) ==
    LET l == Lcm(a[2], b[2])
    IN  a[1] * (l \div a[2]) < b[1] * (l \div b[2])
XDot(p, q) == XAdd(XMul(p.x, q.x), XMul(p.y, q.y))
XCross(p, q) == XSub(XMul(p.x, q.y), XMul(p.y, q.x))
XPSub(p, q) == Pt(XSub(p.x, q.x), XSub(p.y, q.y))
XPMul(p, s) == Pt(XMul(p.x, s), XMul(p.y, s))
XPEq(p, q) == XEq(p.x, q.x) /\ XEq(p.y, q.y)
XNeg(p) == Pt(QNeg(p.x), QNeg(p.y))

---------------------------------------------------------------------------
(* Properties of the world driver (Spec) *)

\* C1: a body created static keeps its position, velocity, rotation (angle)
\* and angular velocity exactly as they were before the first step, whatever
\* the fields, constraints and other bodies, and however many steps are taken
StaticBodiesStayPut ==
    \A i \in DOMAIN bodies :
        initial[i].static =>
            /\ bodies[i].static
            /\ bodies[i].pos = initial[i].pos
            /\ bodies[i].vel = initial[i].vel
            /\ bodies[i].angle = initial[i].angle
            /\ bodies[i].angular_vel = initial[i].angular_vel

\* Constraint k ties bodies i and j
Ties(k, i, j) == {constraints[k].a, constraints[k].b} = {i, j}

\* Two steps have run on a world where a static body with a velocity of its
\* own is tied by a constraint to a dynamic body that has moved and still
\* overlaps it, and the static body is where it was
StaticBodyHeldAndHit ==
    /\ nops >= 2
    /\ op.name = "step"
    /\ raised = "none"
    /\ Len(fields) > 0
    /\ \E i \in DOMAIN bodies, j \in DOMAIN bodies :
        /\ initial[i].static
        /\ ~initial[j].static
        /\ initial[i].vel /= PZero
        /\ \E k \in DOMAIN constraints : Ties(k, i, j)
        /\ bodies[j].pos /= initial[j].pos
        /\ Solve(bodies, i, j) /= NoCollision
        /\ bodies[i].pos = initial[i].pos
        /\ bodies[i].vel = initial[i].vel

\* Number of events one whole step logs: fields, constraints, bodies, pairs
StepLen == Len(fields) + Len(constraints) + Len(bodies)
           + ((Len(bodies) * (Len(bodies) - 1)) \div 2)

\* The q-th pair (i, j), i < j, of the collision loop
PairAt(q) ==
    CHOOSE pr \in (DOMAIN bodies) \X (DOMAIN bodies) :
        /\ pr[1] < pr[2]
        /\ Cardinality({ pq \in (DOMAIN bodies) \X (DOMAIN bodies) :
                            /\ pq[1] < pq[2]
                            /\ \/ pq[1] < pr[1]
                               \/ pq[1] = pr[1] /\ pq[2] < pr[2] }) = q - 1

\* e is the event a step logs at its position p: the fields in order, then
\* the constraints in order, then the bodies in order, then the pairs
StepEventAt(e, p) ==
    IF p <= Len(fields) THEN e = Event("field", p, 0)
    ELSE IF p <= Len(fields) + Len(constraints)
    THEN e = Event("constraint", p - Len(fields), 0)
    ELSE IF p <= Len(fields) + Len(constraints) + Len(bodies)
    THEN e = Event("integrate", p - Len(fields) - Len(constraints), 0)
    ELSE /\ <<e.i, e.j>> = PairAt(p - Len(fields) - Len(constraints) - Len(bodies))
         /\ e.phase = IF bodies[e.i].static /\ bodies[e.j].static
                      THEN "skip" ELSE "collide"

\* int(duration / dt) of the last simulate call
StepsAsked == QTrunc(QDiv(op.duration, op.dt))

\* C2: a step touches its elements in the fixed order fields, constraints,
\* bodies (integrate), pairs (collisions), each phase whole before the next
\* one starts (a step cut short by an exception stops inside a phase and
\* starts no later one); simulate changes the world only by whole steps
PhasesInOrder ==
    /\ op.name = "step" =>
        /\ \A p \in DOMAIN log : StepEventAt(log[p], p)
        /\ raised = "none" => Len(log) = StepLen
    /\ op.name = "simulate" =>
        /\ \A p \in DOMAIN log : StepEventAt(log[p], ((p - 1) % StepLen) + 1)
        /\ raised = "none" => Len(log) = StepsAsked * StepLen
        /\ log = << >> => bodies = pre

\* A whole step has run on a world with two fields, two constraints and
\* three bodies, and has moved a body
FullStepTaken ==
    /\ op.name = "step"
    /\ raised = "none"
    /\ Len(fields) >= 2
    /\ Len(constraints) >= 2
    /\ Len(bodies) >= 3
    /\ Len(log) = StepLen
    /\ bodies /= pre

---------------------------------------------------------------------------
(* Properties of Collision.solve (SpecSolve).  After SolvePair(i, j) the   *)
(* bodies are as the two calls saw them, col = solve(a, b) and             *)
(* colRev = solve(b, a) with a = bodies[op.i] and b = bodies[op.j].        *)

Solved == op.name = "solve"
KindA == bodies[op.i].collider.kind
KindB == bodies[op.j].collider.kind
TwoCircles == KindA = "Circle" /\ KindB = "Circle"

\* b.pos - a.pos, exactly
Offset == XPSub(bodies[op.j].pos, bodies[op.i].pos)

\* Square of the distance between the centres, exactly
DistSq == XDot(Offset, Offset)

\* ra + rb, for two circles
Reach == XAdd(bodies[op.i].collider.radius, bodies[op.j].collider.radius)

\* The part of C3 that does not concern the normals: one call collides iff
\* the other does, with the same depth and the bodies swapped
SolveAgreesBothWays ==
    /\ (col = NoCollision) <=> (colRev = NoCollision)
    /\ col /= NoCollision =>
        /\ col.depth = colRev.depth
        /\ col.a = op.i /\ col.b = op.j
        /\ colRev.a = op.j /\ colRev.b = op.i

\* C3 as stated: solve(a, b) collides iff solve(b, a) does, with the same
\* depth, normals that are negations of each other and swapped bodies
SolveSymmetricNegatedNormals ==
    Solved =>
        /\ SolveAgreesBothWays
        /\ col /= NoCollision => col.normal = XNeg(colRev.normal)

\* C3, amended: as stated, except that the normals are negations of each
\* other when the colliders differ in kind, or when they are of one kind and
\* b.pos - a.pos has a component along the normal; two circles with one
\* centre, and two boxes whose centres differ only across the normal, get
\* the same normal from both calls
SolveSymmetric ==
    Solved =>
        /\ SolveAgreesBothWays
        /\ col /= NoCollision =>
            IF KindA /= KindB \/ XDot(Offset, col.normal)[1] /= 0
            THEN col.normal = XNeg(colRev.normal)
            ELSE col.normal = colRev.normal

\* Both calls found a collision between two boxes whose centres differ, and
\* returned the same normal
BoxesSideBySide ==
    /\ Solved /\ col /= NoCollision /\ colRev /= NoCollision
    /\ KindA = "Box" /\ KindB = "Box"
    /\ DistSq[1] /= 0
    /\ col.normal = colRev.normal
    /\ col.a = op.i /\ colRev.a = op.j

\* C4: on two circles, solve returns no collision exactly when the distance
\* between the centres is greater than ra + rb; touching circles collide
\* with depth 0
CirclesCollideWithinReach ==
    Solved /\ TwoCircles =>
        /\ (col = NoCollision) <=> XLt(XMul(Reach, Reach), DistSq)
        /\ XEq(DistSq, XMul(Reach, Reach)) =>
            col /= NoCollision /\ col.depth = QZero

\* Two circles that exactly touch, their centres off the axes, collide with
\* depth 0
TouchingCirclesCollide ==
    /\ Solved /\ TwoCircles
    /\ XEq(DistSq, XMul(Reach, Reach))
    /\ Offset.x[1] /= 0 /\ Offset.y[1] /= 0
    /\ col /= NoCollision /\ col.depth = QZero

\* Two circles overlap and their centres differ
CirclesOverlapApart == Solved /\ TwoCircles /\ col /= NoCollision /\ DistSq[1] /= 0

\* The part of C5 that concerns the normal and the depth: normal * dist =
\* b.pos - a.pos with dist = ra + rb - depth, and the normal has length 1
CircleNormalAndDepth ==
    CirclesOverlapApart =>
        /\ XPEq(XPMul(col.normal, XSub(Reach, col.depth)), Offset)
        /\ XEq(XDot(col.normal, col.normal), QOne)

\* C5 as stated: for two overlapping circles with distinct centres the normal
\* is (b.pos - a.pos) / dist, the depth is ra + rb - dist and the contact
\* point is a.pos + normal * ra
CircleContactOnA ==
    CirclesOverlapApart =>
        /\ CircleNormalAndDepth
        /\ XPEq(XPSub(col.point, bodies[op.i].pos),
                XPMul(col.normal, bodies[op.i].collider.radius))

\* C6 as stated: for two circles with one centre solve does not raise and
\* returns a collision with normal (1, 0) and depth ra + rb
CoincidentCirclesFallback ==
    Solved /\ TwoCircles /\ DistSq[1] = 0 =>
        /\ raised = "none"
        /\ col /= NoCollision
        /\ col.normal = PtI(1, 0)
        /\ XEq(col.depth, Reach)

---------------------------------------------------------------------------
(* Properties of Rod.solve and Spring.solve (SpecConstraint).  After       *)
(* SolveConstraint(k), pre holds the bodies as solve() found them.         *)

RodSolved == op.name = "constraint" /\ constraints[op.i].kind = "Rod"
SpringSolved == op.name = "constraint" /\ constraints[op.i].kind = "Spring"

\* The two bodies of the constraint just solved
EndA == constraints[op.i].a
EndB == constraints[op.i].b

\* b.pos - a.pos before the call and after it, exactly
DeltaBefore == XPSub(pre[EndB].pos, pre[EndA].pos)
DeltaAfter == XPSub(bodies[EndB].pos, bodies[EndA].pos)

\* How far the call moved each body
MovedA == XPSub(bodies[EndA].pos, pre[EndA].pos)
MovedB == XPSub(bodies[EndB].pos, pre[EndB].pos)

\* The distance before the call; its square is checked where it is used
DistBefore == Magnitude(Delta(constraints[op.i], pre))
DistBeforeExact == XEq(XMul(DistBefore, DistBefore), XDot(DeltaBefore, DeltaBefore))

\* Two bodies at distinct positions, at least one of them dynamic
Solvable ==
    /\ XDot(DeltaBefore, DeltaBefore)[1] /= 0
    /\ ~(pre[EndA].static /\ pre[EndB].static)

\* C7: one Rod.solve() on two bodies at distinct positions, at least one of
\* them dynamic, leaves them exactly length apart
RodRestoresLength ==
    RodSolved /\ Solvable =>
        XEq(XDot(DeltaAfter, DeltaAfter),
            XMul(constraints[op.i].length, constraints[op.i].length))

\* A rod between two dynamic bodies of different masses that were too close,
\* off the axes, has pushed them length apart
RodPushedApart ==
    /\ RodSolved /\ Solvable
    /\ ~pre[EndA].static /\ ~pre[EndB].static
    /\ pre[EndA].inv_mass /= pre[EndB].inv_mass
    /\ DeltaBefore.x[1] /= 0 /\ DeltaBefore.y[1] /= 0
    /\ XLt(XDot(DeltaBefore, DeltaBefore),
           XMul(constraints[op.i].length, constraints[op.i].length))
    /\ XEq(XDot(DeltaAfter, DeltaAfter),
           XMul(constraints[op.i].length, constraints[op.i].length))

\* error * inv_mass / total_inv_mass, times dist * total_inv_mass: the share
\* of the length error a body of that inverse mass takes, scaled
Share(inv_mass) ==
    XMul(XSub(DistBefore, constraints[op.i].length), inv_mass)
Scale == XMul(DistBefore, XAdd(pre[EndA].inv_mass, pre[EndB].inv_mass))

\* C8: Rod.solve() moves A by +(delta / dist) * error * inv_mass_a / total
\* and B by -(delta / dist) * error * inv_mass_b / total, total being the sum
\* of the inverse masses: along the line joining them, in proportion to the
\* inverse masses, a static body not at all
RodSplitsByInverseMass ==
    RodSolved /\ Solvable =>
        /\ DistBeforeExact
        /\ XPEq(XPMul(MovedA, Scale), XPMul(DeltaBefore, Share(pre[EndA].inv_mass)))
        /\ XPEq(XPMul(MovedB, Scale),
                XPMul(XNeg(DeltaBefore), Share(pre[EndB].inv_mass)))
        /\ pre[EndA].static => bodies[EndA].pos = pre[EndA].pos
        /\ pre[EndB].static => bodies[EndB].pos = pre[EndB].pos

\* A rod of length 50 from a static body at (0, 0) to a dynamic body at
\* (100, 0) has left the static body in place and the dynamic one at (50, 0)
RodAnchored ==
    /\ RodSolved
    /\ pre[EndA].static /\ ~pre[EndB].static
    /\ pre[EndA].pos = PtI(0, 0) /\ pre[EndB].pos = PtI(100, 0)
    /\ constraints[op.i].length = Q(50)
    /\ bodies[EndA].pos = PtI(0, 0)
    /\ bodies[EndB].pos = PtI(50, 0)

\* What the call added to each body's acceleration accumulator
AddedA == XPSub(bodies[EndA].acc, pre[EndA].acc)
AddedB == XPSub(bodies[EndB].acc, pre[EndB].acc)

\* total_force * dist = (dist - rest_length) * stiffness * dist
\*                      + (relative velocity . delta) * damping
ForceTimesDist ==
    XAdd(XMul(XMul(XSub(DistBefore, constraints[op.i].rest_length),
                   constraints[op.i].stiffness),
              DistBefore),
         XMul(XDot(XPSub(pre[EndB].vel, pre[EndA].vel), DeltaBefore),
              constraints[op.i].damping))

\* axis * total_force, times dist^2 (axis = delta / dist)
ForceScaled == XPMul(DeltaBefore, ForceTimesDist)
DistSqBefore == XMul(DistBefore, DistBefore)

\* acc is what apply_force(force) adds to a body of this inverse mass
Accelerates(acc, force, body) ==
    IF body.static THEN XPEq(acc, PZero)
    ELSE XPEq(XPMul(acc, DistSqBefore), XPMul(force, body.inv_mass))

\* C9 as stated: Spring.solve() applies +axis * total_force to body B and
\* -axis * total_force to body A
SpringPushesBAlongAxis ==
    SpringSolved /\ XDot(DeltaBefore, DeltaBefore)[1] /= 0 =>
        /\ DistBeforeExact
        /\ Accelerates(AddedB, ForceScaled, pre[EndB])
        /\ Accelerates(AddedA, XNeg(ForceScaled), pre[EndA])

\* C9, amended: Spring.solve() applies +axis * total_force to body A and
\* -axis * total_force to body B, each through apply_force, which adds
\* force * inv_mass to the acceleration accumulator of a dynamic body and
\* nothing to a static one
SpringPushesAAlongAxis ==
    SpringSolved /\ XDot(DeltaBefore, DeltaBefore)[1] /= 0 =>
        /\ DistBeforeExact
        /\ Accelerates(AddedA, ForceScaled, pre[EndA])
        /\ Accelerates(AddedB, XNeg(ForceScaled), pre[EndB])

\* A spring off the axes, away from its rest length, between two moving
\* dynamic bodies has accelerated both
SpringForcesApplied ==
    /\ SpringSolved
    /\ ~pre[EndA].static /\ ~pre[EndB].static
    /\ DeltaBefore.x[1] /= 0 /\ DeltaBefore.y[1] /= 0
    /\ pre[EndA].vel /= PZero /\ pre[EndB].vel /= PZero
    /\ ForceTimesDist[1] /= 0
    /\ ~XPEq(AddedA, PZero) /\ ~XPEq(AddedB, PZero)
    /\ Accelerates(AddedA, ForceScaled, pre[EndA])

\* Two dynamic bodies
BothDynamic == ~pre[EndA].static /\ ~pre[EndB].static
AtRest == pre[EndA].vel = PZero /\ pre[EndB].vel = PZero

\* v points along w: parallel to it, and not against it
Along(v, w) == XCross(v, w)[1] = 0 /\ XLt(QZero, XDot(v, w))

\* C10: a spring between two dynamic bodies at rest and further apart than
\* its rest length accelerates each towards the other; at exactly the rest
\* length, a body A moving towards a resting B is accelerated away from B
SpringPullsAndDamps ==
    SpringSolved /\ BothDynamic =>
        /\ AtRest /\ XLt(constraints[op.i].rest_length, DistBefore) =>
            /\ Along(AddedA, DeltaBefore)
            /\ Along(AddedB, XNeg(DeltaBefore))
        /\ /\ DistBefore = constraints[op.i].rest_length
           /\ pre[EndB].vel = PZero
           /\ XLt(QZero, XDot(pre[EndA].vel, DeltaBefore))
           => XLt(XDot(AddedA, DeltaBefore), QZero)

\* The damping case: at the rest length, off the axes, A moving towards a
\* resting B has been accelerated away from it
SpringDamped ==
    /\ SpringSolved /\ BothDynamic
    /\ DistBefore = constraints[op.i].rest_length
    /\ DeltaBefore.x[1] /= 0 /\ DeltaBefore.y[1] /= 0
    /\ pre[EndB].vel = PZero
    /\ XLt(QZero, XDot(pre[EndA].vel, DeltaBefore))
    /\ XLt(XDot(AddedA, DeltaBefore), QZero)

---------------------------------------------------------------------------
(* Properties of World.simulate (Spec).  After Simulate(duration, dt), pre *)
(* holds the bodies as simulate found them and ret the value it returned.  *)

Simulated == op.name = "simulate"

\* The bodies after k calls of _step(dt) from bs
RECURSIVE StateAfter(_, _, _, _, _)
StateAfter(bs, fs, cs, dt, k) ==
    IF k = 0 THEN bs
    ELSE StateAfter(WorldStep(bs, fs, cs, dt).bodies, fs, cs, dt, k - 1)

\* Sample k (from 0) of a baked channel is keyed k*dt/duration, a time in
\* [0, 1], and holds value
SampleIs(channel, k, value) ==
    /\ XEq(channel[k + 1][1], XMul(XMul(Q(k), op.dt), <<op.duration[2], op.duration[1]>>))
    /\ ~XLt(channel[k + 1][1], QZero)
    /\ ~XLt(QOne, channel[k + 1][1])
    /\ channel[k + 1][2] = value

\* C11 as stated: simulate(duration, dt) with duration > 0 runs exactly
\* floor(duration/dt) steps and returns that many samples per body; sample k
\* is keyed k*dt/duration and holds the body's x, y and rotation after
\* exactly k steps
SimulateSamplesEveryStep ==
    Simulated /\ QGt(op.duration, QZero) =>
        /\ raised = "none"
        /\ ret /= NoReturn
        /\ Len(log) = StepsAsked * StepLen
        /\ \A i \in DOMAIN ret.children :
            /\ Len(ret.children[i].tx) = StepsAsked
            /\ Len(ret.children[i].ty) = StepsAsked
            /\ Len(ret.children[i].rotation) = StepsAsked
            /\ \A k \in 0..(StepsAsked - 1) :
                /\ SampleIs(ret.children[i].tx, k,
                        StateAfter(pre, fields, constraints, op.dt, k)[i].pos.x)
                /\ SampleIs(ret.children[i].ty, k,
                        StateAfter(pre, fields, constraints, op.dt, k)[i].pos.y)
                /\ SampleIs(ret.children[i].rotation, k,
                        StateAfter(pre, fields, constraints, op.dt, k)[i].angle)

\* The swept bounds of child c lie within the bounds b
Within(c, b) ==
    \A k \in DOMAIN c.tx :
        /\ ~XLt(XAdd(c.tx[k][2], ShapeLocal(c.shape).x), b.x)
        /\ ~XLt(XAdd(c.ty[k][2], ShapeLocal(c.shape).y), b.y)
        /\ ~XLt(XAdd(b.x, b.width),
                XAdd(XAdd(c.tx[k][2], ShapeLocal(c.shape).x), c.shape.w))
        /\ ~XLt(XAdd(b.y, b.height),
                XAdd(XAdd(c.ty[k][2], ShapeLocal(c.shape).y), c.shape.h))

\* C12 as stated: the animation simulate returns has one track per body, in
\* order, and its bounds are none only for a world without bodies; with a
\* body they cover every body's swept bounds
SimulateBakesBounds ==
    Simulated /\ raised = "none" =>
        /\ Len(ret.children) = Len(bodies)
        /\ \A i \in DOMAIN ret.children :
            ret.children[i].body = i /\ ret.children[i].shape = bodies[i].shape
        /\ (ret.bounds = NoBounds) <=> (Len(bodies) = 0)
        /\ ret.bounds /= NoBounds =>
            \A i \in DOMAIN ret.children : Within(ret.children[i], ret.bounds)

\* C13 as stated: simulate leaves the bodies, fields and constraints lists
\* with the elements they had, in order, and the bodies in the state reached
\* by floor(duration/dt) steps from the state at the call
SimulateEndsAtLastStep ==
    [][Simulated' =>
        /\ fields' = fields
        /\ constraints' = constraints
        /\ Len(bodies') = Len(bodies)
        /\ \A i \in DOMAIN bodies : bodies'[i].shape = bodies[i].shape
        /\ bodies' = StateAfter(bodies, fields, constraints, op'.dt, StepsAsked')]_vars

---------------------------------------------------------------------------
(* Properties of World.add (SpecWorld) *)

Added == op.name = "add"

\* The body a call to add has to have appended
LastBody == bodies[Len(bodies)]

\* C14: a new World has no bodies and no fields; add(shape, ...) appends
\* exactly one body wrapping the shape at the end of world.bodies and returns
\* it, with the static flag and the mass the caller gave (mass m: inverse
\* mass 1/m unless static); no operation removes or replaces a body
AddAppendsWhatWasAsked ==
    /\ nops = 0 => bodies = << >> /\ fields = << >>
    /\ Len(bodies) >= Len(pre)
    /\ \A i \in DOMAIN pre : bodies[i].shape = pre[i].shape
    /\ Added =>
           /\ raised = "none"
           /\ Len(bodies) = Len(pre) + 1
           /\ LastBody.shape = op.shape
           /\ ret = [body |-> Len(bodies)]
           /\ LastBody.static = op.kwargs.static
           /\ (op.kwargs.mass /= NotPassed /\ ~op.kwargs.static)
                  => XEq(XMul(LastBody.inv_mass, op.kwargs.mass), QOne)

---------------------------------------------------------------------------
(* Properties of Body.integrate inside a step (Spec) *)

Stepped == op.name = "step"

\* The acceleration the fields give a body in a world with gravity alone or
\* with no field at all
FieldAcc ==
    IF fields = << >> THEN PZero ELSE fields[1].g

OnlyGravity ==
    /\ constraints = << >>
    /\ fields = << >> \/ (Len(fields) = 1 /\ fields[1].kind = "Gravity")

\* Semi-implicit Euler, exactly: the velocity first, then the position by
\* the new velocity
EulerVel(b) == [x |-> XAdd(b.vel.x, XMul(XAdd(b.acc.x, FieldAcc.x), op.dt)),
                y |-> XAdd(b.vel.y, XMul(XAdd(b.acc.y, FieldAcc.y), op.dt))]
EulerPos(b) == [x |-> XAdd(b.pos.x, XMul(EulerVel(b).x, op.dt)),
                y |-> XAdd(b.pos.y, XMul(EulerVel(b).y, op.dt))]
EulerBodies ==
    [i \in DOMAIN pre |->
        IF pre[i].static THEN pre[i]
        ELSE [pre[i] EXCEPT !.vel = EulerVel(pre[i]), !.pos = EulerPos(pre[i])]]

\* No two bodies touch where the step places them
NoContact ==
    \A i, j \in DOMAIN pre :
        i < j /\ ~(pre[i].static /\ pre[j].static)
            => Solve(EulerBodies, i, j) = NoCollision

\* Equal up to the rounding of the arithmetic
Near(a, b) == ~XLt(<<1, Grid>>, QAbs(XSub(a, b)))
PNear(p, q) == Near(p.x, q.x) /\ Near(p.y, q.y)

\* C15: in a step with gravity g as the only field (or no field) and no
\* contact, every dynamic body ends with vel = vel + g * dt and
\* pos = pos + (vel + g * dt) * dt: from rest at y0, vel.y = g * dt and
\* pos.y = y0 + g * dt * dt; with no field it advances by vel * dt
IntegrateIsSemiImplicitEuler ==
    (Stepped /\ raised = "none" /\ OnlyGravity /\ NoContact) =>
        \A i \in DOMAIN bodies :
            ~pre[i].static =>
                /\ PNear(bodies[i].vel, EulerVel(pre[i]))
                /\ PNear(bodies[i].pos, EulerPos(pre[i]))
                /\ (pre[i].vel = PZero /\ pre[i].acc = PZero) =>
                       /\ Near(bodies[i].vel.y, XMul(FieldAcc.y, op.dt))
                       /\ Near(bodies[i].pos.y,
                               XAdd(pre[i].pos.y,
                                    XMul(XMul(FieldAcc.y, op.dt), op.dt)))

\* A body at rest fell under gravity, and another kept its velocity
BodyFellFromRest ==
    /\ Stepped /\ raised = "none" /\ OnlyGravity /\ NoContact
    /\ fields /= << >>
    /\ \E i \in DOMAIN bodies :
           /\ ~pre[i].static /\ pre[i].vel = PZero
           /\ QGt(bodies[i].vel.y, QZero)
           /\ QGt(bodies[i].pos.y, pre[i].pos.y)
    /\ \E i \in DOMAIN bodies : ~pre[i].static /\ pre[i].vel /= PZero

---------------------------------------------------------------------------
(* Properties of Body.integrate on its own (SpecBody) *)

Integrated == op.name = "integrate"

\* C16: integrate applies the angular damping factor 0.99: for a non-static
\* body with no accumulated torque, angular_vel afterwards is 0.99 times
\* angular_vel before
AngularVelocityDamped ==
    (Integrated /\ ~pre[1].static /\ pre[1].torque = QZero) =>
        XEq(bodies[1].angular_vel, XMul(Frac(99, 100), pre[1].angular_vel))

---------------------------------------------------------------------------
(* Properties of every collision Collision.solve reports (SpecSolve) *)

DepthNotNegative(c) == ~QLt(c.depth, QZero)

UnitNormal(c) == XEq(XDot(c.normal, c.normal), QOne)

\* normal . (b.pos - a.pos) >= 0
NormalTowardsB(c) ==
    ~XLt(XDot(c.normal, XPSub(bodies[c.b].pos, bodies[c.a].pos)), QZero)

WellFormed(c) ==
    c /= NoCollision =>
        DepthNotNegative(c) /\ UnitNormal(c) /\ NormalTowardsB(c)

\* C17: every collision solve returns, whatever the kinds of the two
\* colliders and wherever they overlap (a circle centred inside a box too),
\* has depth >= 0 and a unit normal with normal . (b.pos - a.pos) >= 0
CollisionsPointFromAToB ==
    Solved => WellFormed(col) /\ WellFormed(colRev)

---------------------------------------------------------------------------
(* Properties of Collision.resolve on elastic circles (SpecSolve) *)

Resolved == op.name = "resolve"

\* b.vel - a.vel before and after resolve, along the collision normal
ClosingSpeedBefore == XDot(XPSub(pre[col.b].vel, pre[col.a].vel), col.normal)
ClosingSpeedAfter == XDot(XPSub(bodies[col.b].vel, bodies[col.a].vel), col.normal)

\* Two dynamic circles of equal mass and restitution 1.0, not spinning,
\* approaching each other along the line of their centres
ElasticHeadOn ==
    /\ pre[col.a].collider.kind = "Circle" /\ pre[col.b].collider.kind = "Circle"
    /\ ~pre[col.a].static /\ ~pre[col.b].static
    /\ pre[col.a].inv_mass = pre[col.b].inv_mass
    /\ pre[col.a].material.restitution = QOne
    /\ pre[col.b].material.restitution = QOne
    /\ pre[col.a].angular_vel = QZero /\ pre[col.b].angular_vel = QZero
    /\ XCross(XPSub(pre[col.b].vel, pre[col.a].vel), col.normal) = QZero
    /\ XLt(ClosingSpeedBefore, QZero)

\* C18: resolve on a head-on collision of two dynamic circles of equal
\* mass with restitution 1.0 and no spin reverses the relative velocity
\* along the normal: same magnitude, opposite sign
ElasticHeadOnReverses ==
    (Resolved /\ ElasticHeadOn) =>
        XEq(ClosingSpeedAfter, QNeg(ClosingSpeedBefore))

\* Such a collision was resolved, and the bodies now separate
ElasticCirclesBounced ==
    /\ Resolved /\ ElasticHeadOn
    /\ XLt(QZero, ClosingSpeedAfter)

---------------------------------------------------------------------------
(* Properties of Collision.solve on turned boxes (SpecSolve) *)

Turned(b) == b.collider.kind = "Box" /\ b.angle = QuarterTurn

\* The body a quarter-turned box stands for: not turned, with the width and
\* the height of its collider exchanged
Upright(b) ==
    IF Turned(b)
    THEN [b EXCEPT !.angle = QZero,
                   !.collider = BoxCollider(b.collider.height, b.collider.width)]
    ELSE b

UprightBodies == [i \in DOMAIN bodies |-> Upright(bodies[i])]

\* C19: the solvers take a box's geometry from the body's rotation: a box
\* turned by a quarter turn collides exactly when the box with width and
\* height exchanged does
QuarterTurnExchangesSides ==
    (Solved /\ \E i \in {op.i, op.j} : Turned(bodies[i])) =>
        ((col = NoCollision) <=> (Solve(UprightBodies, op.i, op.j) = NoCollision))

---------------------------------------------------------------------------
(* Properties of the guards against division by zero (Spec) *)

\* A non-static body exactly at the centre of an inverse-distance field
AtCentre(f, b) == f.kind = "InverseDistance" /\ ~b.static /\ b.pos = f.center

\* C20: nothing divides by a zero distance: a step that applies an
\* InverseDistanceField to a non-static body at the field's centre completes
\* without raising
FieldAtCentreSkipped ==
    (Stepped /\ \E k \in DOMAIN fields, i \in DOMAIN pre :
                    AtCentre(fields[k], pre[i]))
        => raised = "none"

---------------------------------------------------------------------------
(* Properties of the accumulators across a step (Spec) *)

Cleared(b) == b.acc = PZero /\ b.torque = QZero

\* C21: after every step every body's force accumulator and torque
\* accumulator are zero: integrate resets them on dynamic bodies, and nothing
\* ever accumulates on a static body
AccumulatorsCleared ==
    Stepped => \A i \in DOMAIN bodies : Cleared(bodies[i])

---------------------------------------------------------------------------
(* Properties of the guarded returns (SpecGuarded) *)

ConstraintSolved == op.name = "constraint"

Coincide == pre[1].pos = pre[2].pos
BothStatic == pre[1].static /\ pre[2].static

\* C22: Spring.solve on coinciding bodies, Rod.solve on coinciding or on two
\* static bodies, and resolve on two static bodies leave every field of both
\* bodies as it was; Rod.solve never changes a velocity
GuardedCallsChangeNothing ==
    /\ (ConstraintSolved /\ Coincide) => bodies = pre
    /\ (RodSolved /\ BothStatic) => bodies = pre
    /\ (Resolved /\ BothStatic) => bodies = pre
    /\ RodSolved =>
           \A i \in DOMAIN bodies :
               /\ bodies[i].vel = pre[i].vel
               /\ bodies[i].angular_vel = pre[i].angular_vel

\* Two overlapping static bodies were resolved, one of them moving
StaticPairResolved ==
    /\ Resolved /\ BothStatic
    /\ QGt(col.depth, QZero)
    /\ \E i \in DOMAIN pre : pre[i].vel /= PZero

---------------------------------------------------------------------------
(* Properties of resolve on separating bodies (SpecSolve) *)

\* The lever arm of body i: from its centre, as corrected by resolve, to the
\* contact point
Arm(i) == XPSub(col.point, bodies[i].pos)

\* V_p = V_cm + (w x r), with the velocities resolve found
ContactVelocity(i) ==
    [x |-> XSub(pre[i].vel.x, XMul(pre[i].angular_vel, Arm(i).y)),
     y |-> XAdd(pre[i].vel.y, XMul(pre[i].angular_vel, Arm(i).x))]

\* rv . normal at the contact point, and for the centres alone
ContactSpeed ==
    XDot(XPSub(ContactVelocity(col.b), ContactVelocity(col.a)), col.normal)
CentreSpeed == XDot(XPSub(pre[col.b].vel, pre[col.a].vel), col.normal)

VelocitiesKept ==
    \A i \in DOMAIN bodies :
        /\ bodies[i].vel = pre[i].vel
        /\ bodies[i].angular_vel = pre[i].angular_vel

Movable == pre[col.a].inv_mass /= QZero \/ pre[col.b].inv_mass /= QZero

\* C23: when the relative velocity at the contact point, spin included, has
\* a strictly positive component along the normal, resolve changes no
\* velocity and no angular velocity
SeparatingBodiesKeepVelocities ==
    (Resolved /\ Movable /\ XLt(QZero, ContactSpeed)) => VelocitiesKept

\* Bodies whose centres approach but whose contact points separate, because
\* of the spin, were resolved
SpinSeparatesContact ==
    /\ Resolved /\ Movable
    /\ XLt(QZero, ContactSpeed)
    /\ XLt(CentreSpeed, QZero)
    /\ bodies /= pre

---------------------------------------------------------------------------
(* Properties of the positional correction of resolve (SpecSolve) *)

\* How far body i moved along the normal
MovedAlong(i) == XDot(XPSub(bodies[i].pos, pre[i].pos), col.normal)

\* How far it moved across the normal
MovedAcross(i) == XCross(XPSub(bodies[i].pos, pre[i].pos), col.normal)

\* max(depth - slop, 0) * percent
Separation ==
    XMul(QMax(XSub(col.depth, Frac(1, 100)), QZero), Frac(1, 2))

\* The rounding a move can carry: one unit of the arithmetic for each
\* factor the shared correction is scaled by
MoveSlack ==
    XMul(XAdd(XAdd(pre[col.a].inv_mass, pre[col.b].inv_mass), QOne),
         <<1, Grid>>)

Within2(a, b, slack) == ~XLt(slack, QAbs(XSub(a, b)))

---------------------------------------------------------------------------
(* Properties of the friction impulse of resolve (SpecSolve) *)

\* The bodies as resolve sees them at its step 2: positions corrected,
\* velocities not yet changed
Corrected == [i \in DOMAIN pre |-> [pre[i] EXCEPT !.pos = bodies[i].pos]]

\* The values resolve computes on the way to the friction impulse
LeverA == PSub(col.point, Corrected[col.a].pos)
LeverB == PSub(col.point, Corrected[col.b].pos)
RelVel ==
    PSub(PointVelocity(Corrected[col.b], LeverB),
         PointVelocity(Corrected[col.a], LeverA))
VelAlongNormal == Dot(RelVel, col.normal)
NormalJ == ImpulseScalar(col, Corrected, LeverA, LeverB, VelAlongNormal)
Tangent == Normalize(PSub(RelVel, PMul(col.normal, VelAlongNormal)))
TangentJ ==
    QDiv(QNeg(Dot(RelVel, Tangent)),
         InvMassSum(col, Corrected, LeverA, LeverB, Tangent))
Mu == QSqrt(QMul(pre[col.a].material.friction, pre[col.b].material.friction))
MaxJ == QMul(NormalJ, Mu)

\* The impulse body B received, read off its change of velocity, and the
\* part of it that is not the normal impulse
ImpulseOnB ==
    PDiv(PSub(bodies[col.b].vel, pre[col.b].vel), pre[col.b].inv_mass)
FrictionOnB == PSub(ImpulseOnB, PMul(col.normal, NormalJ))

\* Its signed size along the tangent
FrictionSize == Dot(FrictionOnB, Tangent)

\* The rounding an impulse read off a velocity can carry
ImpulseSlack == <<3, Grid>>

Roughly(a, b) == ~QGt(QAbs(QSub(a, b)), ImpulseSlack)

Impelled == Resolved /\ ~pre[col.b].static /\ ~QGt(VelAlongNormal, QZero)

\* Coulomb's law for a friction impulse f, given the tangent t, the
\* unclamped jt and the bound max_j resolve computed
Coulomb(f, t, jt, max_j) ==
    /\ Roughly(Cross(f, t), QZero)
    /\ ~QGt(QAbs(Dot(f, t)), QAdd(max_j, ImpulseSlack))
    /\ ~QGt(QAbs(jt), max_j) =>
           /\ Roughly(f.x, QMul(t.x, jt))
           /\ Roughly(f.y, QMul(t.y, jt))
    /\ (QGt(QAbs(jt), max_j) /\ QGt(jt, QZero)) => Roughly(Dot(f, t), max_j)
    /\ (QGt(QAbs(jt), max_j) /\ QLt(jt, QZero)) =>
           Roughly(Dot(f, t), QNeg(max_j))

\* C25: the friction impulse is along the tangent and obeys Coulomb's law
\* with mu = sqrt(friction_a * friction_b): its size never exceeds j * mu;
\* a jt within the bound is applied as it is, and a clamped one has the
\* size j * mu and the sign of jt
FrictionObeysCoulomb ==
    Impelled =>
        \A f \in {FrictionOnB}, t \in {Tangent}, jt \in {TangentJ},
           max_j \in {MaxJ} : Coulomb(f, t, jt, max_j)

\* A sliding contact whose friction was clamped
FrictionClamped ==
    /\ Impelled
    /\ QGt(QAbs(TangentJ), MaxJ)
    /\ QGt(MaxJ, ImpulseSlack)
    /\ QGt(QAbs(FrictionSize), ImpulseSlack)

---------------------------------------------------------------------------
(* The collision phase of a step (Spec): the pairs it visits, in order *)

IsPairEvent(e) == e.phase \in {"skip", "collide"}
PairEvents == SelectSeq(log, IsPairEvent)

\* Event e comes strictly before event f in the order of (i, j)
PairBefore(e, f) == e.i < f.i \/ (e.i = f.i /\ e.j < f.j)

\* The places of PairEvents that hold the pair (i, j)
VisitsOf(i, j) ==
    { q \in DOMAIN PairEvents : PairEvents[q].i = i /\ PairEvents[q].j = j }

WholeStep == Stepped /\ raised = "none"

\* C26: in a step that runs to its end, the collision phase visits every
\* pair of bodies (i, j) with i < j exactly once, in ascending order of
\* (i, j), never a body with itself; it calls Collision.solve for the pair
\* unless both bodies are static, and then it skips the pair
PairsVisitedOnceInOrder ==
    WholeStep =>
        /\ \A q \in DOMAIN PairEvents :
              /\ PairEvents[q].i \in DOMAIN bodies
              /\ PairEvents[q].j \in DOMAIN bodies
              /\ PairEvents[q].i < PairEvents[q].j
              /\ q > 1 => PairBefore(PairEvents[q - 1], PairEvents[q])
              /\ PairEvents[q].phase = "skip" <=>
                    (pre[PairEvents[q].i].static /\ pre[PairEvents[q].j].static)
        /\ \A i, j \in DOMAIN bodies :
              Cardinality(VisitsOf(i, j)) = IF i < j THEN 1 ELSE 0

\* Three bodies, two of them static: one pair skipped, two pairs solved
StaticPairSkipped ==
    /\ WholeStep
    /\ Len(bodies) = 3
    /\ Len(PairEvents) = 3
    /\ PairEvents[1].phase = "skip"
    /\ PairEvents[2].phase = "collide"
    /\ PairEvents[3].phase = "collide"

---------------------------------------------------------------------------
(* Properties of box_to_box (SpecSolve).  The edges of a box that is not   *)
(* turned, or turned by a quarter turn, are along the x and the y axis, so *)
(* these two are its candidate axes and its projections on them are the    *)
(* intervals pos -+ half the side along the axis.                          *)

BoxesSolved ==
    /\ Solved
    /\ bodies[op.i].collider.kind = "Box"
    /\ bodies[op.j].collider.kind = "Box"

\* The projection <<min, max>> of box b on the x axis and on the y axis
SpanX(b) ==
    << QSub(b.pos.x, QDiv(Upright(b).collider.width, Q(2))),
       QAdd(b.pos.x, QDiv(Upright(b).collider.width, Q(2))) >>
SpanY(b) ==
    << QSub(b.pos.y, QDiv(Upright(b).collider.height, Q(2))),
       QAdd(b.pos.y, QDiv(Upright(b).collider.height, Q(2))) >>

\* Two intervals are disjoint; intervals that touch are not
Disjoint(p, q) == XLt(p[2], q[1]) \/ XLt(q[2], p[1])

SpanOverlap(p, q) == XSub(QMin(p[2], q[2]), QMax(p[1], q[1]))

AlongX(n) == XPEq(n, PtI(1, 0)) \/ XPEq(n, PtI(-1, 0))
AlongY(n) == XPEq(n, PtI(0, 1)) \/ XPEq(n, PtI(0, -1))

\* What the separating-axis test says of two boxes with projections ax, bx
\* on the x axis and ay, by on the y axis
SatSays(c, ax, bx, ay, by) ==
    IF Disjoint(ax, bx) \/ Disjoint(ay, by) THEN c = NoCollision
    ELSE /\ c /= NoCollision
         /\ XLt(SpanOverlap(ax, bx), SpanOverlap(ay, by)) =>
                (XEq(c.depth, SpanOverlap(ax, bx)) /\ AlongX(c.normal))
         /\ XLt(SpanOverlap(ay, by), SpanOverlap(ax, bx)) =>
                (XEq(c.depth, SpanOverlap(ay, by)) /\ AlongY(c.normal))
         /\ XEq(SpanOverlap(ax, bx), SpanOverlap(ay, by)) =>
                (XEq(c.depth, SpanOverlap(ax, bx))
                    /\ (AlongX(c.normal) \/ AlongY(c.normal)))

\* C27: box_to_box returns no collision exactly when the projections of the
\* two boxes on one of their edge-normal axes are disjoint (projections that
\* touch overlap); otherwise the depth is the smallest overlap over the axes
\* and the normal is along the axis of that overlap
SatDecidesBoxes ==
    BoxesSolved =>
        SatSays(col, SpanX(bodies[op.i]), SpanX(bodies[op.j]),
                     SpanY(bodies[op.i]), SpanY(bodies[op.j]))

\* The same for boxes that are not turned
SatDecidesUnturnedBoxes ==
    (BoxesSolved /\ ~Turned(bodies[op.i]) /\ ~Turned(bodies[op.j]))
        => SatDecidesBoxes

\* 20x20 boxes at (0, 0) and (10, 5): normal (1, 0), depth 10
BoxesAtTenFive ==
    /\ BoxesSolved
    /\ bodies[op.i].collider = BoxCollider(Q(20), Q(20))
    /\ bodies[op.j].collider = BoxCollider(Q(20), Q(20))
    /\ bodies[op.i].pos = PtI(0, 0)
    /\ bodies[op.j].pos = PtI(10, 5)
    /\ col /= NoCollision
    /\ XEq(col.depth, Q(10))
    /\ XPEq(col.normal, PtI(1, 0))

---------------------------------------------------------------------------
(* Properties of the bounds World.simulate returns (Spec) *)

\* The values recorded on a channel, and the least and greatest of a set
Recorded(channel) == { channel[k][2] : k \in DOMAIN channel }
Least(S) == CHOOSE v \in S : \A u \in S : ~XLt(u, v)
Greatest(S) == CHOOSE v \in S : \A u \in S : ~XLt(v, u)

\* The swept box of child c: its shape's local bounds, from the least to the
\* greatest recorded offset
SweptBox(c) ==
    Bounds(XAdd(Least(Recorded(c.tx)), ShapeLocal(c.shape).x),
           XAdd(Least(Recorded(c.ty)), ShapeLocal(c.shape).y),
           XAdd(XSub(Greatest(Recorded(c.tx)), Least(Recorded(c.tx))),
                ShapeLocal(c.shape).width),
           XAdd(XSub(Greatest(Recorded(c.ty)), Least(Recorded(c.ty))),
                ShapeLocal(c.shape).height))

\* The bounds b contain the box inner
Covers(b, inner) ==
    /\ ~XLt(inner.x, b.x)
    /\ ~XLt(inner.y, b.y)
    /\ ~XLt(XAdd(b.x, b.width), XAdd(inner.x, inner.width))
    /\ ~XLt(XAdd(b.y, b.height), XAdd(inner.y, inner.height))

\* C28: simulate on a world with bodies, for at least one step, returns
\* bounds that contain every body's local bounds translated by each recorded
\* offset, and every body's swept box, which is (max_x - min_x) + local width
\* wide and (max_y - min_y) + local height high
SimulateBoundsCoverSweptBoxes ==
    (Simulated /\ StepsAsked >= 1 /\ Len(pre) >= 1) =>
        /\ ret /= NoReturn
        /\ ret.bounds /= NoBounds
        /\ \A i \in DOMAIN ret.children :
              /\ Len(ret.children[i].tx) = StepsAsked
              /\ Within(ret.children[i], ret.bounds)
              /\ Covers(ret.bounds, SweptBox(ret.children[i]))

---------------------------------------------------------------------------
(* Properties of the linear momentum across Collision.resolve (SpecSolve) *)

BothMovable == ~pre[col.a].static /\ ~pre[col.b].static

\* v / inv_mass of a dynamic body
Weighted(v, inv_mass) == XMul(v, <<inv_mass[2], inv_mass[1]>>)

\* v_a / inv_mass_a + v_b / inv_mass_b, by component
MomentumX(bs) ==
    XAdd(Weighted(bs[col.a].vel.x, bs[col.a].inv_mass),
         Weighted(bs[col.b].vel.x, bs[col.b].inv_mass))
MomentumY(bs) ==
    XAdd(Weighted(bs[col.a].vel.y, bs[col.a].inv_mass),
         Weighted(bs[col.b].vel.y, bs[col.b].inv_mass))

\* C29: resolve between two dynamic bodies conserves the total linear
\* momentum: v_a / inv_mass_a + v_b / inv_mass_b is after the call what it
\* was before, up to the rounding of the arithmetic
ResolveConservesMomentum ==
    (Resolved /\ BothMovable) =>
        /\ Near(MomentumX(bodies), MomentumX(pre))
        /\ Near(MomentumY(bodies), MomentumY(pre))

\* Two dynamic bodies of unequal mass exchanged a normal and a friction
\* impulse
UnequalBodiesImpelled ==
    /\ Impelled /\ BothMovable
    /\ pre[col.a].inv_mass /= pre[col.b].inv_mass
    /\ bodies[col.a].vel /= pre[col.a].vel
    /\ bodies[col.b].vel /= pre[col.b].vel
    /\ QGt(QAbs(FrictionSize), ImpulseSlack)

---------------------------------------------------------------------------
(* Properties of the order of resolution within a step (Spec) *)

\* The bodies of the last step as its collision phase found them
BeforeCollisions ==
    IntegratePhase(op.dt,
        ConstraintsPhase(constraints, 1,
            FieldsPhase(fields, 1,
                [bodies |-> pre, log |-> << >>, err |-> "none"]))).bodies

NumPairs == (Len(bodies) * (Len(bodies) - 1)) \div 2

\* The pair (i, j) detected on the bodies seen and resolved on the bodies bs;
\* NextResolved does both on the bodies the pairs before it left
PairResolved(bs, seen, i, j) ==
    IF bs[i].static /\ bs[j].static THEN bs
    ELSE Collide(bs, Solve(seen, i, j))

\* The bodies bs after the first q pairs, each pair detected on the bodies
\* the pairs before it left
NextResolved(left, i, j) ==
    CHOOSE r \in { PairResolved(bs, bs, i, j) : bs \in left } : TRUE

RECURSIVE OneByOne(_, _)
OneByOne(bs, q) ==
    IF q = 0 THEN bs
    ELSE NextResolved({OneByOne(bs, q - 1)}, PairAt(q)[1], PairAt(q)[2])

\* The same with every pair detected on the bodies bs
RECURSIVE FromSnapshot(_, _)
FromSnapshot(bs, q) ==
    IF q = 0 THEN bs
    ELSE PairResolved(FromSnapshot(bs, q - 1), bs, PairAt(q)[1], PairAt(q)[2])

\* The bodies in the reverse order of insertion
Reversed(bs) == [i \in DOMAIN bs |-> bs[Len(bs) + 1 - i]]

MutuallyOverlapping(bs) ==
    \A i, j \in DOMAIN bs : i < j => Solve(bs, i, j) /= NoCollision

\* C30: within a step the collisions are resolved one pair after the other:
\* each pair (i, j) is detected and resolved on the positions and velocities
\* the pairs before it left, so the bodies after the step are those found by
\* the collision phase with the pairs resolved one by one in order
CollisionsResolvedOneByOne ==
    WholeStep =>
        \A found \in {BeforeCollisions} : bodies = OneByOne(found, NumPairs)

\* Three mutually overlapping bodies: the step ends in bodies that resolving
\* from a snapshot would not give, nor the same bodies inserted in the
\* reverse order
LaterPairSawEarlierCorrection ==
    /\ WholeStep
    /\ Len(bodies) = 3
    /\ MutuallyOverlapping(BeforeCollisions)
    /\ bodies /= FromSnapshot(BeforeCollisions, NumPairs)
    /\ bodies /= Reversed(OneByOne(Reversed(BeforeCollisions), NumPairs))

===========================================================================
